---- MODULE Spec2Model ----
(***************************************************************************)
(* Depin-go: the durable proof store (src/sdk/storage/ProofStorage.ts),    *)
(* the submission hook (src/hooks/useProofSubmission.ts), the Merkle tree  *)
(* of ProofGenerator (src/sdk/crypto/ProofGenerator.ts), the wallet        *)
(* session of SeedVaultSigner and MWAContext, the signed message of a      *)
(* reading with its verification (ProofGenerator, utils/proof-helpers.ts), *)
(* generateBatchProofs, and the sensor proof generators (src/sdk/sensors), *)
(* with overlapping calls of the hook, of signData and disconnect, and the *)
(* continuous-tracking subscriptions.                                      *)
(*                                                                         *)
(* A proof is identified by its proofHash; the only other part of a proof  *)
(* the store and the hook look at is sensorData.timestamp.  The backing    *)
(* AsyncStorage item '@depin-go:proofs' is the sequence `storage`.         *)
(***************************************************************************)
EXTENDS Integers, Sequences, FiniteSets, TLC

\* ------------------------------------------------------------------ bounds
NumProofs == 2          \* distinct proofs (proofHash values 1..NumProofs)
MaxStore == 2           \* records the backing item may hold
MaxAttempts == 4        \* transport attempts followed within one call
MaxBatchSize == 2       \* largest batchSize / limit a caller passes
MaxRetriesOpt == 1      \* largest maxRetries option a caller configures
MaxTime == 1            \* values Date.now() takes
MaxImport == 2          \* records in one imported snapshot
MaxLeaves == 4          \* proofs in one createMerkleRoot call
NumAccounts == 2        \* accounts the wallet holds
NumTokens == 2          \* auth tokens the wallet hands out
MaxValue == 2           \* values a payload member takes
MaxBatchReadings == 3   \* readings in one generateBatchProofs call
MaxWindow == 2          \* longest collection window a caller asks for, in seconds
MaxSamples == 2         \* most samples a caller asks for
MaxUpdates == 4         \* sensor updates delivered to one subscription
MaxProofInterval == 2   \* largest proofInterval a subscriber asks for

Hashes == 1..NumProofs
Times == 1..MaxTime
Signatures == {"tx_1", "tx_2"}
ErrorMessages == {"network", "rejected"}
StoreWriteError == "setItem failed"

\* an optional field that is absent (undefined in the source)
Undefined == "undefined"
NoTime == 0

\* sensorData.timestamp of the proof with hash h: proof 2 is older than proof 1,
\* proofs 1 and 3 tie
ProofTimestamp(h) == (h % 2) + 1
MaxTimestamp == 2

VARIABLES
  storage,        \* AsyncStorage item STORAGE_KEYS.PROOFS, parsed: Seq(StoredProof)
  storeFaults,    \* environment: may AsyncStorage.setItem reject?
  programId,      \* option programId given?
  autoRetry,      \* option autoRetry
  maxRetries,     \* option maxRetries
  isSubmitting,   \* React state
  retryCount,     \* React state
  pc,             \* position of the running hook call
  frame,          \* locals of the running submitProof / submitBatchProof call
  outer,          \* the submitPendingProofs call waiting for it, if any
  result,         \* what the outermost call returned
  hist,           \* history of the running hook call
  slots,          \* overlapping store writes: one entry per caller
  base,           \* overlapping store writes: the store when the first began
  readFaults,     \* environment: may the read of the backing item fail?
  ret,            \* the last ProofStorage call: arguments and what it returned
  mk,             \* ProofGenerator: the proof list, its tree and a proof path
  authorizedPublicKey,  \* SeedVaultSigner field
  authToken,            \* SeedVaultSigner field
  base64Address,        \* SeedVaultSigner field
  validTokens,    \* wallet: the auth tokens it still accepts
  savedToken,     \* AsyncStorage item AUTH_TOKEN_KEY
  savedBase64,    \* AsyncStorage item BASE64_ADDRESS_KEY
  walletAddress,  \* MWAContext React state
  lastCall,       \* the last signer / context call: its wallet requests, its outcome
  sinceDeauthorize, \* history: deauthorize or disconnect completed, no authorization since
  pg,             \* ProofGenerator on one reading: the proof built, what was verified
  batch,          \* the running generateBatchProofs call
  sensor,         \* the running sensor proof operation and its clock
  race,           \* two callers of the submission hook whose calls may overlap
  flight,         \* a signData call and a disconnect call in flight: where each is
  sub             \* a continuous-tracking subscription and its proof constructions

storeVars == <<storage, storeFaults>>
optionVars == <<programId, autoRetry, maxRetries>>
reactVars == <<isSubmitting, retryCount>>
callVars == <<pc, frame, outer, result, hist>>
concVars == <<race, flight, sub>>
overlapVars == <<slots, base, concVars>>
apiVars == <<readFaults, ret>>
merkleVars == <<mk>>
sessionVars == <<authorizedPublicKey, authToken, base64Address>>
signerVars == <<sessionVars, validTokens, savedToken, savedBase64, walletAddress,
                lastCall, sinceDeauthorize>>
proofVars == <<pg, batch, sensor>>
otherVars == <<apiVars, merkleVars, signerVars, proofVars>>
hookVars == <<optionVars, reactVars, callVars, overlapVars>>
vars == <<storage, storeFaults, programId, autoRetry, maxRetries, isSubmitting,
          retryCount, pc, frame, outer, result, hist,
          slots, base, readFaults, ret, mk, authorizedPublicKey, authToken,
          base64Address, validTokens, savedToken, savedBase64, walletAddress,
          lastCall, sinceDeauthorize, pg, batch, sensor, race,
          flight, sub>>

\* ------------------------------------------------------- StoredProof, store
\* { proof, submitted: false }
NewStoredProof(h) ==
  [proofHash |-> h, submitted |-> FALSE, submittedAt |-> NoTime,
   transactionSignature |-> Undefined, error |-> Undefined]

Range(s) == {s[i] : i \in 1..Len(s)}

\* proofs.findIndex(sp => sp.proof.proofHash === proofHash); 0 stands for -1
findIndex(s, h) ==
  IF \E i \in 1..Len(s) : s[i].proofHash = h
    THEN CHOOSE i \in 1..Len(s) :
           /\ s[i].proofHash = h
           /\ \A j \in 1..(i - 1) : s[j].proofHash # h
    ELSE 0

saveProofOp(s, h) == Append(s, NewStoredProof(h))

saveBatchProofsOp(s, hs) ==
  s \o [i \in 1..Len(hs) |-> NewStoredProof(hs[i])]

\* faulty variant: the transaction signature is not stored with the record
markAsSubmittedOp_NoSignature(s, h, sig, now) ==
  LET index == findIndex(s, h) IN
  IF index # 0
    THEN [s EXCEPT ![index].submitted = TRUE, ![index].submittedAt = now]
    ELSE s

markAsSubmittedOp(s, h, sig, now) ==
  LET index == findIndex(s, h) IN
  IF index # 0
    THEN [s EXCEPT ![index].submitted = TRUE,
                   ![index].submittedAt = now,
                   ![index].transactionSignature = sig]
    ELSE s

\* faulty variant: only the first failure reason is kept
markAsFailedOp_KeepsFirst(s, h, e) ==
  LET index == findIndex(s, h) IN
  IF index # 0 /\ s[index].error = Undefined
    THEN [s EXCEPT ![index].error = e]
    ELSE s

markAsFailedOp(s, h, e) ==
  LET index == findIndex(s, h) IN
  IF index # 0 THEN [s EXCEPT ![index].error = e] ELSE s

\* proofs.find(...) || null; null is the empty sequence, a hit is <<record>>
getProofByHash(s, h) ==
  IF findIndex(s, h) # 0 THEN <<s[findIndex(s, h)]>> ELSE <<>>

IsUnsubmitted(sp) == ~sp.submitted

\* faulty variant: a record with an error is no longer pending (the getStats reading)
getPendingProofs_SkipsFailed(s) ==
  LET IsFresh(sp) == ~sp.submitted /\ sp.error = Undefined
  IN SelectSeq(s, IsFresh)

getPendingProofs(s) == SelectSeq(s, IsUnsubmitted)

\* Array.prototype.sort with (a, b) => a.timestamp - b.timestamp: stable
InsertByTimestamp(sp, sorted) ==
  LET keep == {i \in 1..Len(sorted) :
                 ProofTimestamp(sorted[i].proofHash) <= ProofTimestamp(sp.proofHash)}
      n == Cardinality(keep)
  IN SubSeq(sorted, 1, n) \o <<sp>> \o SubSeq(sorted, n + 1, Len(sorted))

RECURSIVE sortByTimestamp(_)
sortByTimestamp(s) ==
  IF s = <<>> THEN <<>>
  ELSE InsertByTimestamp(s[Len(s)], sortByTimestamp(SubSeq(s, 1, Len(s) - 1)))

Min(a, b) == IF a <= b THEN a ELSE b

\* limit is <<>> when the argument is omitted, <<n>> otherwise;
\* `limit ? sorted.slice(0, limit) : sorted`: 0 is falsy
getSubmissionQueue(s, limit) ==
  LET sorted == sortByTimestamp(getPendingProofs(s)) IN
  IF limit # <<>> /\ limit[1] # 0
    THEN SubSeq(sorted, 1, Min(limit[1], Len(sorted)))
    ELSE sorted

\* proofs.filter(sp => sp.proof.sensorData.timestamp > cutoffDate)
clearOldProofsOp(s, cutoffDate) ==
  LET IsRecent(sp) == ProofTimestamp(sp.proofHash) > cutoffDate
  IN SelectSeq(s, IsRecent)

RECURSIVE mergeImported(_, _)
mergeImported(allProofs, imported) ==
  IF imported = <<>> THEN allProofs
  ELSE LET proof == Head(imported)
           exists == \E i \in 1..Len(allProofs) :
                        allProofs[i].proofHash = proof.proofHash
       IN mergeImported(IF exists THEN allProofs ELSE Append(allProofs, proof),
                        Tail(imported))

\* faulty variant: the imported records come first, so an imported record
\* replaces the stored record of its proofHash
importProofsOp_ImportedWins(s, imported) == mergeImported(<<>>, imported \o s)

importProofsOp(s, imported) == mergeImported(s, imported)

\* faulty variant: the last record of each proofHash is kept
compactStorageOp_KeepsLast(s) ==
  LET IsLast(i) == \A j \in (i + 1)..Len(s) : s[j].proofHash # s[i].proofHash
      RECURSIVE pick(_)
      pick(i) == IF i > Len(s) THEN <<>>
                 ELSE (IF IsLast(i) THEN <<s[i]>> ELSE <<>>) \o pick(i + 1)
  IN pick(1)

\* Map keyed by proofHash, first record of each hash kept, insertion order
compactStorageOp(s) ==
  LET IsFirst(i) == \A j \in 1..(i - 1) : s[j].proofHash # s[i].proofHash
      firsts == {i \in 1..Len(s) : IsFirst(i)}
      RECURSIVE pick(_)
      pick(i) == IF i > Len(s) THEN <<>>
                 ELSE (IF i \in firsts THEN <<s[i]>> ELSE <<>>) \o pick(i + 1)
  IN pick(1)

\* getStats: the three classes the store reports
IsSubmittedStat(sp) == sp.submitted
IsPendingStat(sp) == ~sp.submitted /\ sp.error \in {Undefined, ""}
IsFailedStat(sp) == sp.error \notin {Undefined, ""}


\* --------------------------------------------- proofs in memory and as JSON
\* The records of `storage` name a proof by its proofHash.  What a caller
\* holds is the SensorProof object; what the backing item holds is its JSON.

Accounts == 1..NumAccounts

\* new PublicKey(bytes): an instance of PublicKey holding the key
PublicKeyOf(key) == [type |-> "PublicKey", value |-> key]

\* a Uint8Array holding the bytes
Uint8ArrayOf(bytes) == [type |-> "Uint8Array", value |-> bytes]

\* the ed25519 signature made with the secret of `key` over `message`
SignatureBytes(key, message) == <<"ed25519", key, message>>

\* the outcome of an expression that may throw
Value(v) == [threw |-> FALSE, value |-> v]
Raise == [threw |-> TRUE, value |-> FALSE]
RaiseText == [threw |-> TRUE, value |-> ""]
RaiseKeys == [threw |-> TRUE, value |-> <<>>]

\* a JavaScript value of a payload: a number, null, undefined, an object (its
\* members in insertion order) or an array (its elements, keyed by index)
JSNumber(n) == [kind |-> "number", num |-> n, members |-> <<>>]
JSNull == [kind |-> "null", num |-> 0, members |-> <<>>]
JSUndefined == [kind |-> "undefined", num |-> 0, members |-> <<>>]
Member(k, v) == [key |-> k, val |-> v]
JSObject(members) == [kind |-> "object", num |-> 0, members |-> members]
JSArray(elements) ==
  [kind |-> "array", num |-> 0,
   members |-> [i \in 1..Len(elements) |-> Member(ToString(i - 1), elements[i])]]

IsScalar(v) == v.kind \in {"number", "null", "undefined"}

\* the property names of the payloads, in the order of their UTF-16 code units
KeyNames ==
  <<"0", "1", "averageReading", "latitude", "maxMagnitude", "sampleCount",
    "samples", "steps", "x", "y">>

\* Object.keys(data): the own property names in insertion order; a TypeError
\* for null and undefined
ObjectKeys(data) ==
  CASE data.kind \in {"null", "undefined"} -> RaiseKeys
    [] OTHER -> Value([i \in 1..Len(data.members) |-> data.members[i].key])

\* faulty variant: the keys are left in insertion order
sort_KeepsInsertionOrder(keys) == keys

\* keys.sort(): ascending code units
sort(keys) == SelectSeq(KeyNames, LAMBDA k : k \in Range(keys))

\* the value of own property k, undefined when there is none
GetMember(v, k) ==
  IF \E i \in 1..Len(v.members) : v.members[i].key = k
    THEN v.members[CHOOSE i \in 1..Len(v.members) : v.members[i].key = k].val
    ELSE JSUndefined

RECURSIVE Join(_)
Join(texts) ==
  IF texts = <<>> THEN ""
  ELSE IF Len(texts) = 1 THEN texts[1]
  ELSE texts[1] \o "," \o Join(Tail(texts))

\* JSON.stringify(value, K) with an array K as replacer: K is the property
\* list of EVERY object of the value, nested ones included, and gives the
\* order of the members; a member that is undefined is left out; the elements
\* of an array are all written, undefined as null
RECURSIVE SerializeJSONProperty(_, _)
SerializeJSONProperty(v, K) ==
  CASE v.kind = "number" -> ToString(v.num)
    [] v.kind = "null" -> "null"
    [] v.kind = "object" ->
         LET written == SelectSeq(K, LAMBDA k : GetMember(v, k).kind # "undefined")
         IN "{" \o Join([j \in 1..Len(written) |->
                           "\"" \o written[j] \o "\":"
                             \o SerializeJSONProperty(GetMember(v, written[j]), K)])
                \o "}"
    [] v.kind = "array" ->
         "[" \o Join([j \in 1..Len(v.members) |->
                        IF v.members[j].val.kind = "undefined" THEN "null"
                        ELSE SerializeJSONProperty(v.members[j].val, K)])
             \o "]"
    [] OTHER -> "undefined"

\* `${type}|${timestamp}|${dataJson}|${deviceId}` with
\* dataJson = JSON.stringify(data, Object.keys(data).sort())
MessageWith(sensorData, keys) ==
  sensorData.type \o "|" \o ToString(sensorData.timestamp) \o "|"
    \o SerializeJSONProperty(sensorData.data, keys) \o "|" \o sensorData.deviceId

\* ProofGenerator.createMessage
createMessage(sensorData) ==
  LET keys == ObjectKeys(sensorData.data) IN
  IF keys.threw THEN RaiseText
  ELSE Value(MessageWith(sensorData, sort(keys.value)))

\* SeedVaultSigner.createSensorMessage
createSensorMessage(sensorData) ==
  LET keys == ObjectKeys(sensorData.data) IN
  IF keys.threw THEN RaiseText
  ELSE Value(MessageWith(sensorData, sort(keys.value)))

\* createSensorMessage of utils/proof-helpers
helpersCreateSensorMessage(sensorData) ==
  LET keys == ObjectKeys(sensorData.data) IN
  IF keys.threw THEN RaiseText
  ELSE Value(MessageWith(sensorData, sort(keys.value)))

\* Device.modelId || 'unknown': the deviceId every generator puts in a reading
DeviceModelIds == {"model:SM-G991B", "unknown"}

\* the reading of the stored proof with hash h
SensorDataOf(h) ==
  [type |-> "gps", timestamp |-> ProofTimestamp(h),
   data |-> JSObject(<<Member("x", JSNumber(h))>>), deviceId |-> "unknown"]

\* the key of the device that signed proof h
KeyOfProof(h) == ((h - 1) % NumAccounts) + 1

\* the SensorProof generateProof builds: { sensorData, signature, publicKey, proofHash }
SensorProofOf(h) ==
  [sensorData |-> SensorDataOf(h),
   signature |-> Uint8ArrayOf(SignatureBytes(KeyOfProof(h),
                                  createSensorMessage(SensorDataOf(h)).value)),
   publicKey |-> PublicKeyOf(KeyOfProof(h)),
   proofHash |-> h]

\* what JSON.stringify writes for a member: a PublicKey is written as the
\* base58 string of its toJSON(), a Uint8Array as an object of its indexed
\* bytes; plain data is written as it is
JSONvalue(v) ==
  CASE v.type = "PublicKey" -> [type |-> "string", value |-> v.value]
    [] v.type = "Uint8Array" -> [type |-> "Object", value |-> v.value]
    [] OTHER -> v

JSONstringifyProof(p) ==
  <<"json", [sensorData |-> p.sensorData, signature |-> JSONvalue(p.signature),
             publicKey |-> JSONvalue(p.publicKey), proofHash |-> p.proofHash]>>

\* JSON.parse builds plain strings and objects, no class instances
JSONparseProof(text) == text[2]

\* publicKey.toBytes(): the 32 key bytes of a PublicKey; a TypeError for null
\* and for what has no such method
toBytes(publicKey) ==
  IF publicKey.type = "PublicKey" THEN Value(Uint8ArrayOf(publicKey.value)) ELSE Raise

\* the length of the bytes: 64 for a whole signature
ByteLength(bytes) == IF bytes[1] = "ed25519" THEN 64 ELSE 32

\* nacl.sign.detached.verify(msg, sig, publicKey): throws for an argument that
\* is not a Uint8Array and for a signature that is not 64 bytes long
naclVerify(message, signature, keyBytes) ==
  IF signature.type # "Uint8Array" \/ keyBytes.type # "Uint8Array" THEN Raise
  ELSE IF ByteLength(signature.value) # 64 THEN Raise
  ELSE Value(signature.value = SignatureBytes(keyBytes.value, message))

\* faulty variant: what the expression throws is not caught
verifySignatureOutcome_NoCatch(message, signature, publicKey) ==
  LET key == toBytes(publicKey) IN
  IF key.threw THEN Raise ELSE naclVerify(message, signature, key.value)

\* SeedVaultSigner.verifySignature:
\* try { return nacl.sign.detached.verify(message, signature, publicKey.toBytes()) }
\* catch { return false }
verifySignatureOutcome(message, signature, publicKey) ==
  LET key == toBytes(publicKey)
      verified == IF key.threw THEN Raise
                  ELSE naclVerify(message, signature, key.value)
  IN IF verified.threw THEN Value(FALSE) ELSE verified

verifySignature(message, signature, publicKey) ==
  verifySignatureOutcome(message, signature, publicKey).value

\* faulty variant: the rebuilt message leaves the deviceId out
verifyProofLocallyOutcome_NoDeviceId(proof) ==
  LET keys == ObjectKeys(proof.sensorData.data) IN
  IF keys.threw THEN Value(FALSE)
  ELSE verifySignatureOutcome(
         MessageWith([proof.sensorData EXCEPT !.deviceId = ""], sort(keys.value)),
         proof.signature, proof.publicKey)

\* ProofGenerator.verifyProofLocally: createMessage and signer.verifySignature
\* in a try whose catch returns false
verifyProofLocallyOutcome(proof) ==
  LET message == createMessage(proof.sensorData)
      verified == IF message.threw THEN Raise
                  ELSE verifySignatureOutcome(message.value, proof.signature,
                                              proof.publicKey)
  IN IF verified.threw THEN Value(FALSE) ELSE verified

verifyProofLocally(proof) == verifyProofLocallyOutcome(proof).value

\* verifySensorProof of utils/proof-helpers: createSensorMessage,
\* nacl.sign.detached.verify and proof.publicKey.toBytes() in a try whose catch
\* returns false
verifySensorProofOutcome(proof) ==
  LET message == helpersCreateSensorMessage(proof.sensorData)
      key == toBytes(proof.publicKey)
      verified == IF message.threw \/ key.threw THEN Raise
                  ELSE naclVerify(message.value, proof.signature, key.value)
  IN IF verified.threw THEN Value(FALSE) ELSE verified

\* nacl.hash(messageBytes): SHA-512, and bs58.encode of the digest
naclHash(message) == "sha512(" \o message \o ")"
bs58encode(bytes) == "bs58(" \o bytes \o ")"

\* publicKey.toBase58()
toBase58(publicKey) == "base58:" \o ToString(publicKey.value)

\* JSON.stringify(proofs) / JSON.parse(data) of a list of stored records
JSONstringify(proofs) == [valid |-> TRUE, value |-> proofs]
JSONparse(text) == text.value

\* the StoredProof object JSON.parse returns for the stored record sp
LoadedProof(sp) ==
  [proof |-> JSONparseProof(JSONstringifyProof(SensorProofOf(sp.proofHash)))] @@ sp

LoadedProofs(s) == [i \in 1..Len(s) |-> LoadedProof(s[i])]

\* ------------------------------------------------ ProofGenerator: Merkle tree
\* bs58.encode(proof.signature) and proof.publicKey.toBase58() throw a
\* TypeError on what is not a Uint8Array and not a PublicKey
CanSerialize(proof) ==
  proof.signature.type = "Uint8Array" /\ proof.publicKey.type = "PublicKey"

\* serializeProof(proof): the JSON text of sensorData, signature, publicKey and
\* proofHash; in the model the proofHash determines the other three
serializeProof(proof) == "{proof:" \o ToString(proof.proofHash) \o "}"

\* Crypto.digestStringAsync(SHA256, text): a digest without collisions
sha256(text) == "sha256(" \o text \o ")"

\* hashSensorData of utils/proof-helpers: the SHA-256 digest of the message
hashSensorData(sensorData) ==
  LET message == helpersCreateSensorMessage(sensorData) IN
  IF message.threw THEN RaiseText ELSE Value(sha256(message.value))

\* faulty variant: the unpaired last node of an odd level is promoted as it is
nextLevel_PromotesOdd(currentLevel) ==
  [j \in 1..((Len(currentLevel) + 1) \div 2) |->
     IF 2 * j <= Len(currentLevel)
       THEN sha256(currentLevel[2 * j - 1] \o currentLevel[2 * j])
       ELSE currentLevel[2 * j - 1]]

\* one turn of the while loop: for (i = 0; i < currentLevel.length; i += 2)
\* with right = i + 1 < currentLevel.length ? currentLevel[i + 1] : left
nextLevel(currentLevel) ==
  [j \in 1..((Len(currentLevel) + 1) \div 2) |->
     LET left == currentLevel[2 * j - 1]
         right == IF 2 * j <= Len(currentLevel) THEN currentLevel[2 * j] ELSE left
     IN sha256(left \o right)]

\* while (currentLevel.length > 1) { ...; tree.push(nextLevel) }
RECURSIVE buildTree(_)
buildTree(tree) ==
  IF Len(tree[Len(tree)]) > 1
    THEN buildTree(Append(tree, nextLevel(tree[Len(tree)])))
    ELSE tree

\* createMerkleRoot(proofs): throws on an empty list (and where serializeProof
\* throws), else returns { root, tree }
createMerkleRoot(proofs) ==
  IF proofs = <<>> \/ \E i \in 1..Len(proofs) : ~CanSerialize(proofs[i])
    THEN [threw |-> TRUE, root |-> "", tree |-> <<>>]
    ELSE LET leaves == [i \in 1..Len(proofs) |-> sha256(serializeProof(proofs[i]))]
             tree == buildTree(<<leaves>>)
         IN [threw |-> FALSE, root |-> tree[Len(tree)][1], tree |-> tree]

\* the loop of getMerkleProofPath from `level` on (levels and indexes of the
\* source count from 0, sequences of the model from 1)
RECURSIVE pathFrom(_, _, _)
pathFrom(tree, level, index) ==
  IF level >= Len(tree) THEN <<>>
  ELSE LET isRightNode == index % 2 = 1
           siblingIndex == IF isRightNode THEN index - 1 ELSE index + 1
       IN (IF siblingIndex < Len(tree[level])
             THEN <<tree[level][siblingIndex + 1]>> ELSE <<>>)
            \o pathFrom(tree, level + 1, index \div 2)

getMerkleProofPath(proofIndex, tree) == pathFrom(tree, 1, proofIndex)

\* ------------------------------------------------------------ initial state
NoFrame ==
  [fn |-> "none", proofs |-> <<>>, i |-> 0, signature |-> Undefined,
   err |-> Undefined, closureRetryCount |-> 0]
NoOuter == [active |-> FALSE, taken |-> <<>>, batchSize |-> 0]
NoResult ==
  [fn |-> "none", kind |-> "none", signature |-> Undefined, count |-> 0,
   inner |-> "none"]
NoHist ==
  [attempts |-> 0, accepted |-> 0, startStorage |-> <<>>,
   transportFailed |-> FALSE, writeFailed |-> FALSE, marked |-> <<>>]
\* a caller of the submission hook that has not called
NoCaller ==
  [st |-> "idle", fn |-> "none", taken |-> <<>>, signature |-> Undefined,
   err |-> Undefined, sent |-> FALSE, overlapped |-> FALSE]
NoRace == [c \in 1..2 |-> NoCaller]
\* no overlapping hook calls, signer calls or subscriptions
NoFlight ==
  [sign |-> [st |-> "idle", token |-> "null", outcome |-> "none"],
   disc |-> [st |-> "idle", token |-> "null"]]
NoSub ==
  [st |-> "none", fn |-> "none", proofInterval |-> 0, updateCount |-> 0,
   started |-> 0, inFlight |-> 0, delivered |-> 0, failed |-> 0,
   startedAtRemove |-> 0, inFlightAtRemove |-> 0, deliveredAfterRemove |-> 0]
ConcIdle == race = NoRace /\ flight = NoFlight /\ sub = NoSub
IdleSlot ==
  [st |-> "idle", op |-> "none", hashes |-> <<>>, sig |-> Undefined,
   err |-> Undefined, now |-> NoTime, imported |-> <<>>, snap |-> <<>>]

\* a JSON text: `valid` says whether JSON.parse accepts it, `value` is what
\* JSON.parse returns for it
NoText == [valid |-> FALSE, value |-> <<>>]
NoRet ==
  [op |-> "none", hashes |-> <<>>, limit |-> <<>>, imported |-> NoText,
   readOk |-> TRUE, threw |-> FALSE, count |-> 0, value |-> <<>>,
   text |-> NoText, before |-> <<>>]
NoMerkle ==
  [st |-> "none", proofs |-> <<>>, root |-> "", tree |-> <<>>,
   proofIndex |-> 0, path |-> <<>>]
\* null of the source, for a string and for a PublicKey
Null == "null"
NullKey == [type |-> "null", value |-> 0]
NoCall ==
  [fn |-> "none", outcome |-> "none", error |-> "none", walletLog |-> <<>>,
   before |-> <<NullKey, Null, Null>>, stale |-> FALSE, value |-> NullKey,
   signature |-> <<>>]

\* no reading, no proof, nothing verified
NoReading == [type |-> "", timestamp |-> 0, data |-> JSNull, deviceId |-> ""]
NoSignature == [type |-> "null", value |-> <<>>]
NoProof ==
  [sensorData |-> NoReading, signature |-> NoSignature, publicKey |-> NullKey,
   proofHash |-> ""]
NoOutcomes == [local |-> Value(FALSE), helper |-> Value(FALSE), signer |-> Value(FALSE)]
NoPg ==
  [st |-> "idle", reading |-> NoReading, proof |-> NoProof, messages |-> <<>>,
   subject |-> NoProof, outcomes |-> NoOutcomes]
NoBatch ==
  [st |-> "idle", readings |-> <<>>, i |-> 0, proofs |-> <<>>, outcomes |-> <<>>,
   key |-> NullKey]
NoSensor ==
  [op |-> "none", st |-> "idle", clock |-> 0, timer |-> FALSE, deadline |-> 0,
   window |-> 0, samples |-> 0, readings |-> 0, shake |-> FALSE, by |-> "",
   deviceId |-> "", proof |-> NoProof, error |-> "",
   listener |-> FALSE, builds |-> 0, settles |-> 0, atWin |-> 0, late |-> 0]
ProofIdle == pg = NoPg /\ batch = NoBatch /\ sensor = NoSensor

\* the store API recorder, the Merkle generator and the signer are not used
ApiIdle == readFaults = FALSE /\ ret = NoRet
MerkleIdle == mk = NoMerkle
SignerIdle ==
  /\ authorizedPublicKey = NullKey
  /\ authToken = Null
  /\ base64Address = Null
  /\ validTokens = {}
  /\ savedToken = Null
  /\ savedBase64 = Null
  /\ walletAddress = NullKey
  /\ lastCall = NoCall
  /\ sinceDeauthorize = FALSE

InitCommon ==
  /\ ApiIdle
  /\ MerkleIdle
  /\ SignerIdle
  /\ ProofIdle
  /\ storage = <<>>
  /\ programId \in BOOLEAN
  /\ autoRetry \in BOOLEAN
  /\ maxRetries \in 0..MaxRetriesOpt
  /\ isSubmitting = FALSE
  /\ retryCount = 0
  /\ pc = "idle"
  /\ frame = NoFrame
  /\ outer = NoOuter
  /\ result = NoResult
  /\ hist = NoHist
  /\ slots = [c \in 1..2 |-> IdleSlot]
  /\ base = [storage |-> <<>>, overlap |-> FALSE]
  /\ ConcIdle

\* AsyncStorage works
Init == InitCommon /\ storeFaults = FALSE

\* AsyncStorage.setItem may reject
InitFault == InitCommon /\ storeFaults = TRUE

\* outcomes of one AsyncStorage.setItem: TRUE resolved, FALSE rejected
WriteOutcomes == IF storeFaults THEN BOOLEAN ELSE {TRUE}

\* -------------------------------------------- ProofStorage, one caller at a time
SaveProof(h) ==
  /\ pc = "idle"
  /\ Len(storage) < MaxStore
  /\ \E ok \in WriteOutcomes :
       storage' = IF ok THEN saveProofOp(storage, h) ELSE storage
  /\ UNCHANGED <<storeFaults, optionVars, otherVars, reactVars, callVars, overlapVars>>

SaveBatchProofs(hs) ==
  /\ pc = "idle"
  /\ Len(storage) + Len(hs) <= MaxStore
  /\ \E ok \in WriteOutcomes :
       storage' = IF ok THEN saveBatchProofsOp(storage, hs) ELSE storage
  /\ UNCHANGED <<storeFaults, optionVars, otherVars, reactVars, callVars, overlapVars>>

\* the write, and with it a rejection, happens only when the record is found
MarkAsSubmitted(h, sig, now) ==
  /\ pc = "idle"
  /\ \E ok \in (IF findIndex(storage, h) # 0 THEN WriteOutcomes ELSE {TRUE}) :
       storage' = IF ok THEN markAsSubmittedOp(storage, h, sig, now) ELSE storage
  /\ UNCHANGED <<storeFaults, optionVars, otherVars, reactVars, callVars, overlapVars>>

MarkAsFailed(h, e) ==
  /\ pc = "idle"
  /\ \E ok \in (IF findIndex(storage, h) # 0 THEN WriteOutcomes ELSE {TRUE}) :
       storage' = IF ok THEN markAsFailedOp(storage, h, e) ELSE storage
  /\ UNCHANGED <<storeFaults, optionVars, otherVars, reactVars, callVars, overlapVars>>

\* a rejected write is caught: the call returns 0 and the store is unchanged
ClearOldProofs(cutoffDate) ==
  /\ pc = "idle"
  /\ \E ok \in WriteOutcomes :
       storage' = IF ok THEN clearOldProofsOp(storage, cutoffDate) ELSE storage
  /\ UNCHANGED <<storeFaults, optionVars, otherVars, reactVars, callVars, overlapVars>>

ClearAllProofs ==
  /\ pc = "idle"
  /\ \E ok \in WriteOutcomes :
       storage' = IF ok THEN <<>> ELSE storage
  /\ UNCHANGED <<storeFaults, optionVars, otherVars, reactVars, callVars, overlapVars>>

ImportProofs(imported) ==
  /\ pc = "idle"
  /\ Len(importProofsOp(storage, imported)) <= MaxStore
  /\ \E ok \in WriteOutcomes :
       storage' = IF ok THEN importProofsOp(storage, imported) ELSE storage
  /\ UNCHANGED <<storeFaults, optionVars, otherVars, reactVars, callVars, overlapVars>>

CompactStorage ==
  /\ pc = "idle"
  /\ \E ok \in WriteOutcomes :
       storage' = IF ok THEN compactStorageOp(storage) ELSE storage
  /\ UNCHANGED <<storeFaults, optionVars, otherVars, reactVars, callVars, overlapVars>>


\* ------------------------------------------------------- useProofSubmission
\* (the React states `error` and `transaction` are write-only for the hook and
\* are left out; `retryCount` is kept because the retry test reads it)

\* a call returns to its caller; a submitPendingProofs call that awaited it
\* then returns the number of proofs it took (`return 1` / `return proofs.length`)
Returned(out, fn, kind, sig) ==
  IF out.active
    THEN [fn |-> "submitPendingProofs", kind |-> "count",
          signature |-> sig, count |-> Len(out.taken), inner |-> kind]
    ELSE [fn |-> fn, kind |-> kind, signature |-> sig, count |-> 0, inner |-> kind]

\* a rejection out of submitProof; submitPendingProofs catches it and returns 0
Thrown(out, fn) ==
  IF out.active
    THEN [fn |-> "submitPendingProofs", kind |-> "count",
          signature |-> Undefined, count |-> 0, inner |-> "threw"]
    ELSE [fn |-> fn, kind |-> "threw", signature |-> Undefined, count |-> 0,
          inner |-> "threw"]

\* the synchronous head of submitProof(proof, wallet), up to the first await
BeginSubmitProof(h, wallet, out) ==
  /\ outer' = out
  /\ hist' = [NoHist EXCEPT !.startStorage = storage]
  /\ IF ~programId \/ ~wallet
       THEN /\ frame' = [NoFrame EXCEPT !.fn = "submitProof", !.proofs = <<h>>]
            /\ pc' = "returned"
            /\ result' = Returned(out, "submitProof", "null", Undefined)
            /\ UNCHANGED <<isSubmitting, retryCount>>
       ELSE /\ isSubmitting' = TRUE
            /\ retryCount' = 0
            /\ frame' = [NoFrame EXCEPT !.fn = "submitProof", !.proofs = <<h>>,
                                        !.closureRetryCount = retryCount]
            /\ pc' = "submitProofToChain"
            /\ UNCHANGED result

SubmitProof(h, wallet) ==
  /\ pc = "idle"
  /\ BeginSubmitProof(h, wallet, NoOuter)
  /\ UNCHANGED <<storeVars, optionVars, otherVars, overlapVars>>

\* await submitProofToChain(...): the ledger transport accepts or fails
SubmitProofToChain ==
  /\ pc = "submitProofToChain"
  /\ hist.attempts < MaxAttempts
  /\ \/ \E sig \in Signatures :
          /\ frame' = [frame EXCEPT !.signature = sig]
          /\ hist' = [hist EXCEPT !.attempts = @ + 1, !.accepted = @ + 1]
          /\ pc' = "markAsSubmitted"
     \/ \E e \in ErrorMessages :
          /\ frame' = [frame EXCEPT !.err = e]
          /\ hist' = [hist EXCEPT !.attempts = @ + 1, !.transportFailed = TRUE]
          /\ pc' = "markAsFailed"
  /\ UNCHANGED <<storeVars, optionVars, otherVars, reactVars, outer, result, overlapVars>>

\* await proofStorage.markAsSubmitted(proof.proofHash, signature); return signature
\* (a rejected write lands in the same catch as a transport failure)
SubmitProofMark ==
  /\ pc = "markAsSubmitted"
  /\ LET h == frame.proofs[1] IN
     \E now \in Times :
     \E ok \in (IF findIndex(storage, h) # 0 THEN WriteOutcomes ELSE {TRUE}) :
       IF ok
         THEN /\ storage' = markAsSubmittedOp(storage, h, frame.signature, now)
              /\ hist' = [hist EXCEPT !.marked = Append(@, h)]
              /\ isSubmitting' = FALSE
              /\ result' = Returned(outer, "submitProof", "signature", frame.signature)
              /\ pc' = "returned"
              /\ UNCHANGED frame
         ELSE /\ frame' = [frame EXCEPT !.err = StoreWriteError]
              /\ hist' = [hist EXCEPT !.writeFailed = TRUE]
              /\ pc' = "markAsFailed"
              /\ UNCHANGED <<storage, isSubmitting, result>>
  /\ UNCHANGED <<storeFaults, optionVars, otherVars, retryCount, outer, overlapVars>>

\* `autoRetry && retryCount < maxRetries`: the closure tests the retryCount
\* of the render that created it
ShouldRetry(closureRetryCount) == autoRetry /\ closureRetryCount < maxRetries

\* catch: await proofStorage.markAsFailed(proof.proofHash, error.message), then
\* either setRetryCount(prev => prev + 1) and the head of the recursive
\* submitProof call (setIsSubmitting(true), setRetryCount(0)), or return null
SubmitProofFail ==
  /\ pc = "markAsFailed"
  /\ LET h == frame.proofs[1] IN
     \E ok \in (IF findIndex(storage, h) # 0 THEN WriteOutcomes ELSE {TRUE}) :
       IF ~ok
         THEN /\ hist' = [hist EXCEPT !.writeFailed = TRUE]
              /\ isSubmitting' = FALSE
              /\ result' = Thrown(outer, "submitProof")
              /\ pc' = "returned"
              /\ UNCHANGED <<storage, retryCount>>
         ELSE /\ storage' = markAsFailedOp(storage, h, frame.err)
              /\ UNCHANGED hist
              /\ IF ShouldRetry(frame.closureRetryCount)
                   THEN /\ retryCount' = 0
                        /\ isSubmitting' = TRUE
                        /\ pc' = "submitProofToChain"
                        /\ UNCHANGED result
                   ELSE /\ isSubmitting' = FALSE
                        /\ result' = Returned(outer, "submitProof", "null", Undefined)
                        /\ pc' = "returned"
                        /\ UNCHANGED retryCount
  /\ UNCHANGED <<storeFaults, optionVars, otherVars, frame, outer, overlapVars>>

\* the synchronous head of submitBatchProof(proofs, wallet)
BeginSubmitBatchProof(hs, wallet, out) ==
  /\ outer' = out
  /\ hist' = [NoHist EXCEPT !.startStorage = storage]
  /\ frame' = [NoFrame EXCEPT !.fn = "submitBatchProof", !.proofs = hs, !.i = 1]
  /\ UNCHANGED retryCount
  /\ IF ~programId \/ ~wallet
       THEN /\ pc' = "returned"
            /\ result' = Returned(out, "submitBatchProof", "null", Undefined)
            /\ UNCHANGED isSubmitting
       ELSE /\ isSubmitting' = TRUE
            /\ pc' = "submitBatchToChain"
            /\ UNCHANGED result

SubmitBatchProof(hs, wallet) ==
  /\ pc = "idle"
  /\ BeginSubmitBatchProof(hs, wallet, NoOuter)
  /\ UNCHANGED <<storeVars, optionVars, otherVars, overlapVars>>

\* faulty variant: the catch records the failure on the proofs, as submitProof does
SubmitBatchCatch_MarksFailed ==
  /\ isSubmitting' = FALSE
  /\ result' = Returned(outer, "submitBatchProof", "null", Undefined)
  /\ pc' = "returned"
  /\ storage' = IF frame.proofs = <<>> THEN storage
                ELSE markAsFailedOp(storage, frame.proofs[1], "rejected")

\* catch (err) { setError(error); return null } finally { setIsSubmitting(false) }
SubmitBatchCatch ==
  /\ isSubmitting' = FALSE
  /\ result' = Returned(outer, "submitBatchProof", "null", Undefined)
  /\ pc' = "returned"
  /\ UNCHANGED storage

\* the proof objects of the running submitBatchProof call: the objects the
\* caller built, or, from submitPendingProofs, `pending.map((sp) => sp.proof)`
\* of the records getSubmissionQueue parsed
BundleProofs ==
  [k \in 1..Len(frame.proofs) |->
     IF outer.active
       THEN JSONparseProof(JSONstringifyProof(SensorProofOf(frame.proofs[k])))
       ELSE SensorProofOf(frame.proofs[k])]

\* await proofGen.createProofBundle(proofs) throws where createMerkleRoot
\* throws; then await submitBatchToChain(bundle, ...): the transport accepts
\* or fails
SubmitBatchToChain ==
  /\ pc = "submitBatchToChain"
  /\ \/ /\ createMerkleRoot(BundleProofs).threw
        /\ SubmitBatchCatch
        /\ UNCHANGED <<frame, hist>>
     \/ /\ ~createMerkleRoot(BundleProofs).threw
        /\ \E sig \in Signatures :
             /\ frame' = [frame EXCEPT !.signature = sig]
             /\ hist' = [hist EXCEPT !.attempts = @ + 1, !.accepted = @ + 1]
             /\ pc' = "markBatch"
             /\ UNCHANGED <<storage, isSubmitting, result>>
     \/ /\ ~createMerkleRoot(BundleProofs).threw
        /\ \E e \in ErrorMessages :
             /\ frame' = [frame EXCEPT !.err = e]
             /\ hist' = [hist EXCEPT !.attempts = @ + 1, !.transportFailed = TRUE]
             /\ SubmitBatchCatch
  /\ UNCHANGED <<storeFaults, optionVars, otherVars, retryCount, outer, overlapVars>>

\* one turn of `for (const proof of proofs) await markAsSubmitted(...)`;
\* after the last turn the call returns the signature; a rejected write
\* leaves the loop through catch and the call returns null
SubmitBatchMark ==
  /\ pc = "markBatch"
  /\ LET h == frame.proofs[frame.i]
         last == frame.i = Len(frame.proofs)
     IN
     \E now \in Times :
     \E ok \in (IF findIndex(storage, h) # 0 THEN WriteOutcomes ELSE {TRUE}) :
       IF ok
         THEN /\ storage' = markAsSubmittedOp(storage, h, frame.signature, now)
              /\ hist' = [hist EXCEPT !.marked = Append(@, h)]
              /\ frame' = [frame EXCEPT !.i = @ + 1]
              /\ IF last
                   THEN /\ isSubmitting' = FALSE
                        /\ result' = Returned(outer, "submitBatchProof", "signature",
                                              frame.signature)
                        /\ pc' = "returned"
                   ELSE UNCHANGED <<isSubmitting, result, pc>>
         ELSE /\ hist' = [hist EXCEPT !.writeFailed = TRUE]
              /\ SubmitBatchCatch
              /\ UNCHANGED frame
  /\ UNCHANGED <<storeFaults, optionVars, otherVars, retryCount, outer, overlapVars>>

\* submitPendingProofs(wallet, batchSize): reads the queue, then awaits
\* submitProof for one proof or submitBatchProof for several
SubmitPendingProofs(wallet, batchSize) ==
  /\ pc = "idle"
  /\ LET pending == getSubmissionQueue(storage, <<batchSize>>)
         proofs == [i \in 1..Len(pending) |-> pending[i].proofHash]
         out == [active |-> TRUE, taken |-> proofs, batchSize |-> batchSize]
     IN
     IF ~wallet \/ Len(pending) = 0
       THEN /\ outer' = [out EXCEPT !.taken = <<>>]
            /\ hist' = [NoHist EXCEPT !.startStorage = storage]
            /\ frame' = NoFrame
            /\ result' = [fn |-> "submitPendingProofs", kind |-> "count",
                          signature |-> Undefined, count |-> 0, inner |-> "none"]
            /\ pc' = "returned"
            /\ UNCHANGED <<isSubmitting, retryCount>>
       ELSE IF Len(proofs) = 1
         THEN BeginSubmitProof(proofs[1], wallet, out)
         ELSE BeginSubmitBatchProof(proofs, wallet, out)
  /\ UNCHANGED <<storeVars, optionVars, otherVars, overlapVars>>

\* the caller has the result; the hook is free for the next call
Ack ==
  /\ pc = "returned"
  /\ pc' = "idle"
  /\ frame' = NoFrame
  /\ outer' = NoOuter
  /\ result' = NoResult
  /\ hist' = NoHist
  /\ UNCHANGED <<storeVars, optionVars, otherVars, reactVars, overlapVars>>

\* --------------------------------------------------------------- inputs
BatchInputs ==
  {<<>>} \cup UNION {[1..n -> Hashes] : n \in 1..MaxBatchSize}

ImportableRecords ==
  {NewStoredProof(h) : h \in Hashes}
    \cup {[NewStoredProof(h) EXCEPT !.submitted = TRUE, !.submittedAt = 1,
                                    !.transactionSignature = "tx_1"] : h \in Hashes}

ImportInputs == UNION {[1..n -> ImportableRecords] : n \in 1..MaxImport}

Next ==
  \/ \E h \in Hashes : SaveProof(h)
  \/ \E hs \in BatchInputs : SaveBatchProofs(hs)
  \/ \E h \in Hashes, sig \in Signatures, now \in Times : MarkAsSubmitted(h, sig, now)
  \/ \E h \in Hashes, e \in ErrorMessages : MarkAsFailed(h, e)
  \/ \E cutoffDate \in 0..MaxTimestamp : ClearOldProofs(cutoffDate)
  \/ ClearAllProofs
  \/ \E imported \in ImportInputs : ImportProofs(imported)
  \/ CompactStorage
  \/ \E h \in Hashes, wallet \in BOOLEAN : SubmitProof(h, wallet)
  \/ SubmitProofToChain
  \/ SubmitProofMark
  \/ SubmitProofFail
  \/ \E hs \in BatchInputs, wallet \in BOOLEAN : SubmitBatchProof(hs, wallet)
  \/ SubmitBatchToChain
  \/ SubmitBatchMark
  \/ \E wallet \in BOOLEAN, batchSize \in 0..MaxBatchSize :
       SubmitPendingProofs(wallet, batchSize)
  \/ Ack

\* one caller at a time, AsyncStorage works, the transport may fail
Spec == Init /\ [][Next]_vars

\* one caller at a time, AsyncStorage.setItem may reject, the transport may fail
SpecFault == InitFault /\ [][Next]_vars


\* ------------------------------------------- ProofStorage, overlapping writes
\* Every write operation is `await getAllProofs()` ... `await setItem(...)`:
\* the read and the write are two steps, and another caller may run between.

\* what the operation held in slot sl writes, given the list it read
Apply(sl, s) ==
  CASE sl.op = "saveProof" -> saveProofOp(s, sl.hashes[1])
    [] sl.op = "saveBatchProofs" -> saveBatchProofsOp(s, sl.hashes)
    [] sl.op = "markAsSubmitted" -> markAsSubmittedOp(s, sl.hashes[1], sl.sig, sl.now)
    [] sl.op = "markAsFailed" -> markAsFailedOp(s, sl.hashes[1], sl.err)
    [] sl.op = "importProofs" -> importProofsOp(s, sl.imported)
    [] OTHER -> s

\* does the operation reach its setItem, given the list it read?
Writes(sl) ==
  IF sl.op \in {"markAsSubmitted", "markAsFailed"}
    THEN findIndex(sl.snap, sl.hashes[1]) # 0
    ELSE TRUE

WriteCalls ==
  {[IdleSlot EXCEPT !.op = "saveProof", !.hashes = <<h>>] : h \in Hashes}
    \cup {[IdleSlot EXCEPT !.op = "saveBatchProofs", !.hashes = hs] : hs \in BatchInputs}
    \cup {[IdleSlot EXCEPT !.op = "markAsSubmitted", !.hashes = <<h>>, !.sig = sig,
                           !.now = now] :
            h \in Hashes, sig \in Signatures, now \in Times}
    \cup {[IdleSlot EXCEPT !.op = "markAsFailed", !.hashes = <<h>>, !.err = e] :
            h \in Hashes, e \in ErrorMessages}
    \cup {[IdleSlot EXCEPT !.op = "importProofs", !.imported = <<sp>>] :
            sp \in ImportableRecords}

\* caller c starts a write operation: const proofs = await this.getAllProofs()
BeginWrite(c, call) ==
  /\ slots[c].st = "idle"
  /\ Len(Apply(call, storage)) <= MaxStore
  /\ slots' = [slots EXCEPT ![c] = [call EXCEPT !.st = "read", !.snap = storage]]
  /\ base' = IF \A d \in DOMAIN slots : slots[d].st = "idle"
               THEN [storage |-> storage, overlap |-> FALSE]
               ELSE [base EXCEPT !.overlap =
                       @ \/ \E d \in DOMAIN slots : slots[d].st = "read"]
  /\ UNCHANGED <<storeVars, optionVars, otherVars, reactVars, callVars, concVars>>

\* await AsyncStorage.setItem(STORAGE_KEYS.PROOFS, JSON.stringify(proofs))
EndWrite(c) ==
  /\ slots[c].st = "read"
  /\ storage' = IF Writes(slots[c]) THEN Apply(slots[c], slots[c].snap) ELSE storage
  /\ slots' = [slots EXCEPT ![c].st = "done"]
  /\ UNCHANGED <<storeFaults, base, optionVars, otherVars, reactVars, callVars, concVars>>

\* every started operation has finished; the callers go on
Settle ==
  /\ \E c \in DOMAIN slots : slots[c].st = "done"
  /\ \A c \in DOMAIN slots : slots[c].st \in {"idle", "done"}
  /\ slots' = [c \in DOMAIN slots |-> IdleSlot]
  /\ base' = [storage |-> <<>>, overlap |-> FALSE]
  /\ UNCHANGED <<storeVars, optionVars, otherVars, reactVars, callVars, concVars>>

NextOverlap ==
  \/ \E c \in DOMAIN slots, call \in WriteCalls : BeginWrite(c, call)
  \/ \E c \in DOMAIN slots : EndWrite(c)
  \/ Settle

InitOverlap == Init /\ programId /\ autoRetry /\ maxRetries = 0

\* two callers of the store whose operations may overlap, AsyncStorage works
SpecOverlap == InitOverlap /\ [][NextOverlap]_vars

\* ------------------------------------- ProofStorage calls and what they return
\* outcomes of the read in getAllProofs: TRUE read and parsed, FALSE failed
ReadOutcomes == IF readFaults THEN BOOLEAN ELSE {TRUE}

\* getAllProofs: a rejected getItem or a JSON.parse error is caught, [] returned
getAllProofsRead(ok) == IF ok THEN storage ELSE <<>>

\* importCount of importProofs: one for every push
RECURSIVE countImported(_, _)
countImported(allProofs, imported) ==
  IF imported = <<>> THEN 0
  ELSE LET proof == Head(imported)
           exists == \E i \in 1..Len(allProofs) :
                        allProofs[i].proofHash = proof.proofHash
       IN IF exists
            THEN countImported(allProofs, Tail(imported))
            ELSE 1 + countImported(Append(allProofs, proof), Tail(imported))

\* the call ends: r is what it took and returned, s what the backing item holds
Called(r, s) ==
  /\ ret' = [r EXCEPT !.before = storage]
  /\ storage' = s
  /\ Len(s) <= MaxStore
  /\ UNCHANGED <<storeFaults, readFaults, hookVars, proofVars, merkleVars, signerVars>>

SaveProofCall(h) ==
  \E ok \in ReadOutcomes :
    Called([NoRet EXCEPT !.op = "saveProof", !.hashes = <<h>>, !.readOk = ok],
           saveProofOp(getAllProofsRead(ok), h))

SaveBatchProofsCall(hs) ==
  \E ok \in ReadOutcomes :
    Called([NoRet EXCEPT !.op = "saveBatchProofs", !.hashes = hs, !.readOk = ok],
           saveBatchProofsOp(getAllProofsRead(ok), hs))

\* index === -1: nothing is written and nothing is thrown
MarkAsSubmittedCall(h, sig, now) ==
  \E ok \in ReadOutcomes :
    LET proofs == getAllProofsRead(ok) IN
    Called([NoRet EXCEPT !.op = "markAsSubmitted", !.hashes = <<h>>, !.readOk = ok],
           IF findIndex(proofs, h) # 0
             THEN markAsSubmittedOp(proofs, h, sig, now) ELSE storage)

MarkAsFailedCall(h, e) ==
  \E ok \in ReadOutcomes :
    LET proofs == getAllProofsRead(ok) IN
    Called([NoRet EXCEPT !.op = "markAsFailed", !.hashes = <<h>>, !.readOk = ok],
           IF findIndex(proofs, h) # 0 THEN markAsFailedOp(proofs, h, e) ELSE storage)

ClearOldProofsCall(cutoffDate) ==
  \E ok \in ReadOutcomes :
    LET proofs == getAllProofsRead(ok)
        recentProofs == clearOldProofsOp(proofs, cutoffDate)
    IN Called([NoRet EXCEPT !.op = "clearOldProofs", !.readOk = ok,
                            !.count = Len(proofs) - Len(recentProofs)],
              recentProofs)

\* AsyncStorage.removeItem: the item is not read
ClearAllProofsCall ==
  Called([NoRet EXCEPT !.op = "clearAllProofs"], <<>>)

\* JSON.parse(jsonData) throws on a text that is no JSON: rethrown, no write
ImportProofsCall(jsonData) ==
  IF ~jsonData.valid
    THEN Called([NoRet EXCEPT !.op = "importProofs", !.imported = jsonData,
                              !.threw = TRUE],
                storage)
    ELSE \E ok \in ReadOutcomes :
           LET importedProofs == JSONparse(jsonData)
               existingProofs == getAllProofsRead(ok)
           IN Called([NoRet EXCEPT !.op = "importProofs", !.imported = jsonData,
                                   !.readOk = ok,
                                   !.count = countImported(existingProofs,
                                                           importedProofs)],
                     importProofsOp(existingProofs, importedProofs))

CompactStorageCall ==
  \E ok \in ReadOutcomes :
    LET proofs == getAllProofsRead(ok)
        compactedProofs == compactStorageOp(proofs)
    IN Called([NoRet EXCEPT !.op = "compactStorage", !.readOk = ok,
                            !.count = Len(proofs) - Len(compactedProofs)],
              compactedProofs)

GetAllProofsCall ==
  \E ok \in ReadOutcomes :
    Called([NoRet EXCEPT !.op = "getAllProofs", !.readOk = ok,
                         !.value = LoadedProofs(getAllProofsRead(ok))],
           storage)

GetPendingProofsCall ==
  \E ok \in ReadOutcomes :
    Called([NoRet EXCEPT !.op = "getPendingProofs", !.readOk = ok,
                         !.value = LoadedProofs(getPendingProofs(getAllProofsRead(ok)))],
           storage)

GetSubmissionQueueCall(limit) ==
  \E ok \in ReadOutcomes :
    Called([NoRet EXCEPT !.op = "getSubmissionQueue", !.limit = limit, !.readOk = ok,
                         !.value = LoadedProofs(
                                     getSubmissionQueue(getAllProofsRead(ok), limit))],
           storage)

GetProofByHashCall(h) ==
  \E ok \in ReadOutcomes :
    Called([NoRet EXCEPT !.op = "getProofByHash", !.hashes = <<h>>, !.readOk = ok,
                         !.value = LoadedProofs(getProofByHash(getAllProofsRead(ok), h))],
           storage)

ExportProofsCall ==
  \E ok \in ReadOutcomes :
    Called([NoRet EXCEPT !.op = "exportProofs", !.readOk = ok,
                         !.text = JSONstringify(getAllProofsRead(ok))],
           storage)

\* the texts a caller hands to importProofs: snapshots, and a text that is no JSON
ImportTexts == {JSONstringify(imported) : imported \in ImportInputs} \cup {NoText}

LimitInputs == {<<>>} \cup {<<n>> : n \in 0..MaxBatchSize}

NextApi ==
  \/ \E h \in Hashes : SaveProofCall(h)
  \/ \E hs \in BatchInputs : SaveBatchProofsCall(hs)
  \/ \E h \in Hashes, sig \in Signatures, now \in Times : MarkAsSubmittedCall(h, sig, now)
  \/ \E h \in Hashes, e \in ErrorMessages : MarkAsFailedCall(h, e)
  \/ \E cutoffDate \in 0..MaxTimestamp : ClearOldProofsCall(cutoffDate)
  \/ ClearAllProofsCall
  \/ \E jsonData \in ImportTexts : ImportProofsCall(jsonData)
  \/ CompactStorageCall
  \/ GetAllProofsCall
  \/ GetPendingProofsCall
  \/ \E limit \in LimitInputs : GetSubmissionQueueCall(limit)
  \/ \E h \in Hashes : GetProofByHashCall(h)
  \/ ExportProofsCall

\* the submission hook is not used
HookIdle ==
  /\ storage = <<>>
  /\ storeFaults = FALSE
  /\ programId = TRUE
  /\ autoRetry = TRUE
  /\ maxRetries = 0
  /\ isSubmitting = FALSE
  /\ retryCount = 0
  /\ pc = "idle"
  /\ frame = NoFrame
  /\ outer = NoOuter
  /\ result = NoResult
  /\ hist = NoHist
  /\ slots = [c \in 1..2 |-> IdleSlot]
  /\ base = [storage |-> <<>>, overlap |-> FALSE]
  /\ ConcIdle

InitApi ==
  /\ HookIdle /\ MerkleIdle /\ SignerIdle /\ ProofIdle
  /\ ret = NoRet
  /\ readFaults = FALSE

InitUnreadable ==
  /\ HookIdle /\ MerkleIdle /\ SignerIdle /\ ProofIdle
  /\ ret = NoRet
  /\ readFaults = TRUE

\* the calls of ProofStorage with their results, the backing item readable
SpecApi == InitApi /\ [][NextApi]_vars

\* the same calls, the read of the backing item may fail
SpecUnreadable == InitUnreadable /\ [][NextApi]_vars

\* ------------------------------------- ProofGenerator calls on one proof list
ProofLists == UNION {[1..n -> Hashes] : n \in 0..MaxLeaves}

\* the proofs as generateProof built them
ProofObjects(hs) == [i \in 1..Len(hs) |-> SensorProofOf(hs[i])]

\* const { root, tree } = await proofGen.createMerkleRoot(proofs)
CreateMerkleRootCall ==
  /\ mk.st = "input"
  /\ LET r == createMerkleRoot(ProofObjects(mk.proofs)) IN
     mk' = IF r.threw
             THEN [mk EXCEPT !.st = "threw"]
             ELSE [mk EXCEPT !.st = "built", !.root = r.root, !.tree = r.tree]
  /\ UNCHANGED <<storeVars, hookVars, proofVars, apiVars, signerVars>>

\* const path = proofGen.getMerkleProofPath(proofIndex, tree)
GetMerkleProofPathCall(proofIndex) ==
  /\ mk.st \in {"built", "path"}
  /\ proofIndex < Len(mk.proofs)
  /\ mk' = [mk EXCEPT !.st = "path", !.proofIndex = proofIndex,
                      !.path = getMerkleProofPath(proofIndex, mk.tree)]
  /\ UNCHANGED <<storeVars, hookVars, proofVars, apiVars, signerVars>>

NextMerkle ==
  \/ CreateMerkleRootCall
  \/ \E proofIndex \in 0..(MaxLeaves - 1) : GetMerkleProofPathCall(proofIndex)

InitMerkle ==
  /\ HookIdle /\ ApiIdle /\ SignerIdle /\ ProofIdle
  /\ mk \in {[NoMerkle EXCEPT !.st = "input", !.proofs = hs] : hs \in ProofLists}

\* createMerkleRoot and getMerkleProofPath on every proof list of the bound
SpecMerkle == InitMerkle /\ [][NextMerkle]_vars

\* ------------------------------------------- SeedVaultSigner and MWAContext
\* One caller at a time.  The wallet is the environment: it grants or rejects
\* a request, and an auth token it handed out may stop being accepted.

\* authorization.auth_token
TokenOf(t) == "auth_token_" \o ToString(t)
AuthTokens == {TokenOf(t) : t \in 1..NumTokens}

\* account.address: the base64 text of the account's key
Base64AddressOf(a) == "base64:" \o ToString(a)
Addresses == {Base64AddressOf(a) : a \in Accounts}

\* toByteArray(address): the key the base64 text encodes
toByteArray(address) == CHOOSE a \in Accounts : Base64AddressOf(a) = address

Session == <<authorizedPublicKey, authToken, base64Address>>

\* isAuthorized()
isAuthorized ==
  authorizedPublicKey # NullKey /\ authToken # Null /\ base64Address # Null

\* the call ends without having changed the session
CallThrew(fn, error, log) ==
  /\ lastCall' = [NoCall EXCEPT !.fn = fn, !.outcome = "threw", !.error = error,
                                !.walletLog = log, !.before = Session,
                                !.stale = authToken \notin validTokens]
  /\ UNCHANGED <<sessionVars, validTokens, savedToken, sinceDeauthorize>>

\* wallet.authorize resolved for account a with auth token t: the callback
\* builds the PublicKey from the address, the three fields are set
AuthorizeGranted(fn, log, a, t) ==
  /\ authorizedPublicKey' = PublicKeyOf(toByteArray(Base64AddressOf(a)))
  /\ authToken' = TokenOf(t)
  /\ base64Address' = Base64AddressOf(a)
  /\ validTokens' = validTokens \cup {TokenOf(t)}
  /\ sinceDeauthorize' = FALSE
  /\ lastCall' = [NoCall EXCEPT !.fn = fn, !.outcome = "returned",
                                !.walletLog = Append(log, "authorize"),
                                !.before = Session,
                                !.value = PublicKeyOf(toByteArray(Base64AddressOf(a)))]

\* authorize(): transact, wallet.authorize; a rejection is rethrown
authorizeBody(fn, log) ==
  \/ /\ \E a \in Accounts, t \in 1..NumTokens : AuthorizeGranted(fn, log, a, t)
     /\ UNCHANGED savedToken
  \/ CallThrew(fn, "authorization failed", Append(log, "authorize"))

Authorize ==
  /\ authorizeBody("authorize", <<>>)
  /\ UNCHANGED <<savedBase64, walletAddress, storeVars, hookVars, proofVars, apiVars, merkleVars>>

\* reauthorize(): without a token it is authorize(); with one, wallet.authorize
\* is asked with the token, and a rejection falls back to authorize()
Reauthorize ==
  /\ IF authToken = Null
       THEN authorizeBody("reauthorize", <<>>)
       ELSE \/ /\ \E a \in Accounts, t \in 1..NumTokens :
                    AuthorizeGranted("reauthorize", <<>>, a, t)
               /\ UNCHANGED savedToken
            \/ authorizeBody("reauthorize", <<"authorize">>)
  /\ UNCHANGED <<savedBase64, walletAddress, storeVars, hookVars, proofVars, apiVars, merkleVars>>

\* signData(data): the guard on the three fields; then, in one transact,
\* wallet.reauthorize with the held token, the refreshed token kept and
\* persisted, wallet.signMessages; every rejection is rethrown as
\* 'Failed to sign data'
signDataBody(fn, message) ==
  IF authorizedPublicKey = NullKey \/ authToken = Null \/ base64Address = Null
    THEN CallThrew(fn, "Not authorized", <<>>)
    ELSE \/ CallThrew(fn, "Failed to sign data", <<"reauthorize">>)
         \/ /\ authToken \in validTokens
            /\ \E t \in 1..NumTokens :
                 /\ authToken' = TokenOf(t)
                 /\ savedToken' = TokenOf(t)
                 /\ validTokens' = validTokens \cup {TokenOf(t)}
            /\ UNCHANGED <<authorizedPublicKey, base64Address, sinceDeauthorize>>
            /\ \/ lastCall' =
                    [NoCall EXCEPT !.fn = fn, !.outcome = "returned",
                                   !.walletLog = <<"reauthorize", "signMessages">>,
                                   !.before = Session,
                                   !.value = authorizedPublicKey,
                                   !.signature =
                                      SignatureBytes(toByteArray(base64Address), message)]
               \/ lastCall' =
                    [NoCall EXCEPT !.fn = fn, !.outcome = "threw",
                                   !.error = "Failed to sign data",
                                   !.walletLog = <<"reauthorize", "signMessages">>,
                                   !.before = Session]

SignData(h) ==
  /\ signDataBody("signData", createSensorMessage(SensorDataOf(h)).value)
  /\ UNCHANGED <<savedBase64, walletAddress, storeVars, hookVars, proofVars, apiVars, merkleVars>>

\* generateProof(sensorData): the isAuthorized() guard, then signSensorData
generateProofBody(sensorData) ==
  IF ~isAuthorized
    THEN CallThrew("generateProof", "Signer not authorized", <<>>)
    ELSE LET message == createSensorMessage(sensorData) IN
         IF message.threw
           THEN CallThrew("generateProof", "TypeError", <<>>)
           ELSE signDataBody("generateProof", message.value)

\* the proof generateProof returns once signSensorData has resolved:
\* { sensorData, signature, publicKey, proofHash: messageHash } with
\* messageHash = bs58.encode(nacl.hash(messageBytes))
ProofBuilt(sensorData) ==
  [sensorData |-> sensorData,
   signature |-> Uint8ArrayOf(lastCall'.signature),
   publicKey |-> lastCall'.value,
   proofHash |-> bs58encode(naclHash(createSensorMessage(sensorData).value))]

GenerateProof(h) ==
  /\ generateProofBody(SensorDataOf(h))
  /\ UNCHANGED <<savedBase64, walletAddress, storeVars, hookVars, proofVars, apiVars, merkleVars>>

\* the wallet request of deauthorize / disconnect for `token`: it revokes the
\* token, or the transact fails and the catch only logs
Revocation(token) ==
  \/ validTokens' = validTokens \ {token}
  \/ validTokens' = validTokens

\* faulty variant: the fields are cleared only when the wallet revoked the token
Deauthorize_KeepsOnFailure ==
  /\ \/ /\ validTokens' = validTokens \ {authToken}
        /\ authorizedPublicKey' = NullKey
        /\ authToken' = Null
        /\ base64Address' = Null
     \/ UNCHANGED <<validTokens, sessionVars>>
  /\ sinceDeauthorize' = TRUE
  /\ lastCall' = [NoCall EXCEPT !.fn = "deauthorize", !.outcome = "returned",
                                !.walletLog = <<"deauthorize">>, !.before = Session]
  /\ UNCHANGED <<savedToken, savedBase64, walletAddress, storeVars, hookVars, proofVars,
                 apiVars, merkleVars>>

\* deauthorize(): try { wallet.deauthorize } catch { log } finally { fields = null }
Deauthorize ==
  /\ Revocation(authToken)
  /\ authorizedPublicKey' = NullKey
  /\ authToken' = Null
  /\ base64Address' = Null
  /\ sinceDeauthorize' = TRUE
  /\ lastCall' = [NoCall EXCEPT !.fn = "deauthorize", !.outcome = "returned",
                                !.walletLog = IF authToken # Null
                                                THEN <<"deauthorize">> ELSE <<>>,
                                !.before = Session]
  /\ UNCHANGED <<savedToken, savedBase64, walletAddress, storeVars, hookVars, proofVars,
                 apiVars, merkleVars>>

\* MWAContext.connect: wallet.authorize with the saved token if there is one;
\* token and address are persisted, the signer is synced with setAuthorized
Connect ==
  /\ \/ \E a \in Accounts, t \in 1..NumTokens :
          /\ AuthorizeGranted("connect", <<>>, a, t)
          /\ savedToken' = TokenOf(t)
          /\ savedBase64' = Base64AddressOf(a)
          /\ walletAddress' = PublicKeyOf(toByteArray(Base64AddressOf(a)))
     \/ /\ CallThrew("connect", "authorization failed", <<"authorize">>)
        /\ UNCHANGED <<savedBase64, walletAddress>>
  /\ UNCHANGED <<storeVars, hookVars, proofVars, apiVars, merkleVars>>

\* MWAContext.disconnect: wallet.deauthorize for the saved token, failure
\* logged; finally the two items are removed, clearAuthorization(), and the
\* context state is reset
Disconnect ==
  /\ Revocation(savedToken)
  /\ savedToken' = Null
  /\ savedBase64' = Null
  /\ authorizedPublicKey' = NullKey
  /\ authToken' = Null
  /\ base64Address' = Null
  /\ walletAddress' = NullKey
  /\ sinceDeauthorize' = TRUE
  /\ lastCall' = [NoCall EXCEPT !.fn = "disconnect", !.outcome = "returned",
                                !.walletLog = IF savedToken # Null
                                                THEN <<"deauthorize">> ELSE <<>>,
                                !.before = Session]
  /\ UNCHANGED <<storeVars, hookVars, proofVars, apiVars, merkleVars>>

\* the wallet stops accepting a token it handed out
ExpireToken(token) ==
  /\ token \in validTokens
  /\ validTokens' = validTokens \ {token}
  /\ UNCHANGED <<sessionVars, savedToken, savedBase64, walletAddress, lastCall,
                 sinceDeauthorize, storeVars, hookVars, proofVars, apiVars, merkleVars>>

NextSigner ==
  \/ Authorize
  \/ Reauthorize
  \/ \E h \in Hashes : SignData(h)
  \/ \E h \in Hashes : GenerateProof(h)
  \/ Deauthorize
  \/ Connect
  \/ Disconnect
  \/ \E token \in AuthTokens : ExpireToken(token)

\* the state after MWAProvider mounted: restoreSession has synced the signer
\* with a persisted session when both items were saved
SessionRestored ==
  /\ savedToken \in AuthTokens \cup {Null}
  /\ savedBase64 \in Addresses \cup {Null}
  /\ validTokens \in SUBSET AuthTokens
  /\ authorizedPublicKey = IF savedToken # Null /\ savedBase64 # Null
                             THEN PublicKeyOf(toByteArray(savedBase64)) ELSE NullKey
  /\ authToken = IF savedToken # Null /\ savedBase64 # Null THEN savedToken ELSE Null
  /\ base64Address = IF savedToken # Null /\ savedBase64 # Null THEN savedBase64 ELSE Null
  /\ walletAddress = authorizedPublicKey
  /\ lastCall = NoCall
  /\ sinceDeauthorize = FALSE

InitSigner == HookIdle /\ ApiIdle /\ MerkleIdle /\ ProofIdle /\ SessionRestored

\* the signer and the wallet context, one call at a time
SpecSigner == InitSigner /\ [][NextSigner]_vars

\* ------------------------------------- ProofGenerator calls on one reading
\* generateProof on a reading, then one of: the three verification routines
\* on the proof it returned, on the proof with another reading put in its
\* place, or on the proof with a part made unusable.

Values == 1..MaxValue

\* payloads as the generators build them: flat ones (in either insertion
\* order), one with a nested object (detectStepsWithProof: averageReading),
\* one whose nested object repeats a top-level name, one with an array, one
\* with a member that is undefined (generateCoverageProof: wifiSsid), and no
\* payload at all
FlatPayloads ==
  {JSObject(<<Member("x", JSNumber(v))>>) : v \in Values}
    \cup {JSObject(<<Member("x", JSNumber(v)), Member("y", JSNumber(w))>>) :
            v \in Values, w \in Values}
    \cup {JSObject(<<Member("y", JSNumber(w)), Member("x", JSNumber(v))>>) :
            v \in Values, w \in Values}
    \cup {JSObject(<<Member("x", JSNumber(v)), Member("y", JSUndefined)>>) :
            v \in Values}
NestedPayloads ==
  {JSObject(<<Member("steps", JSNumber(v)),
              Member("averageReading", JSObject(<<Member("x", JSNumber(w))>>))>>) :
     v \in Values, w \in Values}
    \cup {JSObject(<<Member("x", JSNumber(v)),
                     Member("averageReading", JSObject(<<Member("x", JSNumber(w))>>))>>) :
            v \in Values, w \in Values}
    \cup {JSObject(<<Member("steps", JSNumber(v)),
                     Member("samples", JSArray(<<JSNumber(w)>>))>>) :
            v \in Values, w \in Values}
Payloads == FlatPayloads \cup NestedPayloads \cup {JSNull}

SensorTypes == {"gps", "accelerometer"}
DeviceIds == DeviceModelIds

Readings ==
  [type : SensorTypes, timestamp : 1..MaxTimestamp, data : Payloads,
   deviceId : DeviceIds]

\* the readings handed to generateProof
SignedReadings == {r \in Readings : r.type = "accelerometer" /\ r.timestamp = 1}

\* the same logical content: the same kind of value, for an object the same
\* names with the same values whatever their order, for an array the same
\* elements in order
RECURSIVE SameValue(_, _)
SameValue(v, w) ==
  /\ v.kind = w.kind
  /\ v.num = w.num
  /\ Len(v.members) = Len(w.members)
  /\ IF v.kind = "array"
       THEN \A i \in 1..Len(v.members) : SameValue(v.members[i].val, w.members[i].val)
       ELSE /\ {v.members[i].key : i \in 1..Len(v.members)}
                 = {w.members[i].key : i \in 1..Len(w.members)}
            /\ \A i \in 1..Len(v.members) :
                 SameValue(v.members[i].val, GetMember(w, v.members[i].key))

SameContent(r, s) ==
  /\ r.type = s.type
  /\ r.timestamp = s.timestamp
  /\ r.deviceId = s.deviceId
  /\ SameValue(r.data, s.data)

\* the verdicts of verifyProofLocally, verifySensorProof and
\* signer.verifySignature (on the message that was signed) for a proof
OutcomesFor(proof, signedMessage) ==
  [local |-> verifyProofLocallyOutcome(proof),
   helper |-> verifySensorProofOutcome(proof),
   signer |-> verifySignatureOutcome(signedMessage, proof.signature, proof.publicKey)]

\* const proof = await proofGen.generateProof(sensorData)
GenerateProofCall(r) ==
  /\ pg.st = "idle"
  /\ generateProofBody(r)
  /\ pg' = IF lastCall'.outcome = "returned"
             THEN [NoPg EXCEPT !.st = "proved", !.reading = r,
                               !.proof = ProofBuilt(r),
                               !.messages = <<createSensorMessage(r).value,
                                              createMessage(r).value,
                                              helpersCreateSensorMessage(r).value>>]
             ELSE [NoPg EXCEPT !.st = "threw", !.reading = r]
  /\ UNCHANGED <<savedBase64, walletAddress, storeVars, hookVars, apiVars,
                 merkleVars, batch, sensor>>

\* verifyProofLocally(proof), verifySensorProof(proof) on the proof returned
VerifyCall ==
  /\ pg.st = "proved"
  /\ pg' = [pg EXCEPT !.st = "verified", !.subject = pg.proof,
                      !.outcomes = OutcomesFor(pg.proof, pg.messages[1])]
  /\ UNCHANGED <<storeVars, hookVars, apiVars, merkleVars, signerVars, batch, sensor>>

\* the same on the proof with the reading s in the place of its own
VerifyTamperedCall(s) ==
  /\ pg.st = "proved"
  /\ ~SameContent(pg.reading, s)
  /\ LET tampered == [pg.proof EXCEPT !.sensorData = s] IN
     pg' = [pg EXCEPT !.st = "tampered", !.subject = tampered,
                      !.outcomes = OutcomesFor(tampered, pg.messages[1])]
  /\ UNCHANGED <<storeVars, hookVars, apiVars, merkleVars, signerVars, batch, sensor>>

\* the proof with one part made unusable: no payload, a signature that is
\* cut short, a string, a plain object or null, a public key that is a string
\* or null
Malformed(proof) ==
  {[proof EXCEPT !.sensorData.data = JSNull],
   [proof EXCEPT !.sensorData.data = JSUndefined],
   [proof EXCEPT !.signature = Uint8ArrayOf(<<"cut", proof.publicKey.value, "">>)],
   [proof EXCEPT !.signature = [type |-> "string", value |-> proof.signature.value]],
   [proof EXCEPT !.signature = JSONvalue(proof.signature)],
   [proof EXCEPT !.signature = NoSignature],
   [proof EXCEPT !.publicKey = JSONvalue(proof.publicKey)],
   [proof EXCEPT !.publicKey = NullKey]}

VerifyMalformedCall(damaged) ==
  /\ pg.st = "proved"
  /\ damaged \in Malformed(pg.proof)
  /\ pg' = [pg EXCEPT !.st = "malformed", !.subject = damaged,
                      !.outcomes = OutcomesFor(damaged, pg.messages[1])]
  /\ UNCHANGED <<storeVars, hookVars, apiVars, merkleVars, signerVars, batch, sensor>>

NextProof ==
  \/ \E r \in SignedReadings : GenerateProofCall(r)
  \/ VerifyCall
  \/ \E s \in Readings : VerifyTamperedCall(s)
  \/ \E damaged \in Malformed(pg.proof) : VerifyMalformedCall(damaged)

\* a signer that holds a session, or none, and no proof yet
InitProof ==
  /\ HookIdle /\ ApiIdle /\ MerkleIdle /\ SessionRestored
  /\ savedToken \in {Null, TokenOf(1)}
  /\ savedBase64 \in {Null, Base64AddressOf(1)}
  /\ validTokens \in {{}, AuthTokens}
  /\ pg = NoPg /\ batch = NoBatch /\ sensor = NoSensor

\* generateProof and the verification routines on the readings of the bound
SpecProof == InitProof /\ [][NextProof]_vars

\* ----------------------------------------------- generateBatchProofs calls
\* for (const sensorData of sensorDataArray) { try { push(await generateProof) }
\* catch { log } }; one generateProof at a time

\* the readings of a batch: two that can be encoded, one without a payload
BatchReadings ==
  {[type |-> "accelerometer", timestamp |-> 1, data |-> d, deviceId |-> "unknown"] :
     d \in {JSObject(<<Member("x", JSNumber(1))>>),
            JSObject(<<Member("x", JSNumber(2))>>), JSNull}}
SensorDataArrays == UNION {[1..n -> BatchReadings] : n \in 0..MaxBatchReadings}

\* generateBatchProofs(sensorDataArray) is called
GenerateBatchProofs(sensorDataArray) ==
  /\ batch.st = "idle"
  /\ batch' = [NoBatch EXCEPT !.st = IF sensorDataArray = <<>> THEN "returned"
                                     ELSE "running",
                              !.readings = sensorDataArray, !.i = 1,
                              !.key = authorizedPublicKey]
  /\ UNCHANGED <<storeVars, hookVars, apiVars, merkleVars, signerVars, pg, sensor>>

\* faulty variant: the first failure ends the loop
BatchStep_AbortsOnFailure ==
  /\ batch.st = "running"
  /\ generateProofBody(batch.readings[batch.i])
  /\ batch' =
       [batch EXCEPT
          !.i = batch.i + 1,
          !.outcomes = Append(batch.outcomes, lastCall'.outcome),
          !.proofs = IF lastCall'.outcome = "returned"
                       THEN Append(batch.proofs, ProofBuilt(batch.readings[batch.i]))
                       ELSE batch.proofs,
          !.st = IF batch.i = Len(batch.readings) \/ lastCall'.outcome = "threw"
                   THEN "returned" ELSE "running"]
  /\ UNCHANGED <<savedBase64, walletAddress, storeVars, hookVars, apiVars,
                 merkleVars, pg, sensor>>

\* one turn of the loop: generateProof(sensorData), the proof pushed when it
\* resolved, the error logged when it rejected; after the last reading the
\* proofs are returned
BatchStep ==
  /\ batch.st = "running"
  /\ generateProofBody(batch.readings[batch.i])
  /\ batch' =
       [batch EXCEPT
          !.i = batch.i + 1,
          !.outcomes = Append(batch.outcomes, lastCall'.outcome),
          !.proofs = IF lastCall'.outcome = "returned"
                       THEN Append(batch.proofs, ProofBuilt(batch.readings[batch.i]))
                       ELSE batch.proofs,
          !.st = IF batch.i = Len(batch.readings) THEN "returned" ELSE "running"]
  /\ UNCHANGED <<savedBase64, walletAddress, storeVars, hookVars, apiVars,
                 merkleVars, pg, sensor>>

NextBatch ==
  \/ \E sensorDataArray \in SensorDataArrays : GenerateBatchProofs(sensorDataArray)
  \/ BatchStep

InitBatch == InitProof

\* generateBatchProofs on the reading lists of the bound
SpecBatch == InitBatch /\ [][NextBatch]_vars

\* ------------------------------------------- sensor proof generators
\* One operation of a sensor proof generator at a time.  The clock counts
\* the seconds since the operation began; a timer that is set fires when the
\* clock reaches its deadline.  The sensor, the location service and the wallet
\* are the environment: a callback or a fix may come at any time or never.

Grace == 3              \* the "+ 3000" of the hard timeout, in seconds
ReadingTimeout == 5     \* the 5000 ms of getCurrentReading, in seconds

SamplingOps ==
  {"generateMovementProof", "generateRotationProof", "generateMagneticProof",
   "generatePressureProof"}
GPSOps == {"getCurrentLocation", "generateLocationProof", "generateEnrichedLocationProof"}

SensorTypeOf(op) ==
  CASE op = "generateRotationProof" -> "gyroscope"
    [] op = "generateMagneticProof" -> "magnetometer"
    [] op = "generatePressureProof" -> "barometer"
    [] op \in GPSOps -> "gps"
    [] OTHER -> "accelerometer"

\* the longest any timer of the generators runs
MaxWait == IF ReadingTimeout > MaxWindow + Grace THEN ReadingTimeout ELSE MaxWindow + Grace
MaxClock == MaxWait + 1

Waiting == {"collecting", "building", "locating", "geocoding"}

\* the signer is not used by the step
SignerUntouched ==
  UNCHANGED <<sessionVars, validTokens, savedToken, sinceDeauthorize, lastCall>>

\* resolve(await this.proofGen.generateProof(sensorData)) in try/catch(reject),
\* from the operation state s
BuildAndSettle(s, sensorData, by) ==
  /\ generateProofBody(sensorData)
  /\ sensor' = IF lastCall'.outcome = "returned"
                 THEN [s EXCEPT !.st = "resolved", !.timer = FALSE, !.by = by,
                                !.settles = @ + 1,
                                !.proof = ProofBuilt(sensorData)]
                 ELSE [s EXCEPT !.st = "rejected", !.timer = FALSE, !.by = by,
                                !.settles = @ + 1,
                                !.error = lastCall'.error]

\* buildMovementProof / buildProof: the averaged reading with
\* sampleCount: readings.length
SampledData(op, n, deviceId) ==
  [type |-> SensorTypeOf(op), timestamp |-> 1,
   data |-> JSObject(<<Member("x", JSNumber(1)), Member("sampleCount", JSNumber(n))>>),
   deviceId |-> deviceId]

\* faulty variant: the operation is started without its hard timeout
StartSampling_NoHardTimeout(op, window, samples, deviceId) ==
  /\ sensor.st = "idle"
  /\ sensor' = [NoSensor EXCEPT !.op = op, !.st = "collecting", !.timer = FALSE,
                                !.listener = TRUE,
                                !.deadline = window + Grace, !.window = window,
                                !.samples = samples, !.deviceId = deviceId]
  /\ SignerUntouched

\* generateMovementProof, generateRotationProof, generateMagneticProof
\* ({duration, samples}) and generatePressureProof ({samples, intervalMs},
\* window intervalMs * samples): the hard timeout is set for window + 3000,
\* the listener is added
StartSampling(op, window, samples, deviceId) ==
  /\ sensor.st = "idle"
  /\ sensor' = [NoSensor EXCEPT !.op = op, !.st = "collecting", !.timer = TRUE,
                                !.listener = TRUE,
                                !.deadline = window + Grace, !.window = window,
                                !.samples = samples, !.deviceId = deviceId]
  /\ SignerUntouched

\* getCurrentReading(): listener and a 5 s timeout
StartGetCurrentReading ==
  /\ sensor.st = "idle"
  /\ sensor' = [NoSensor EXCEPT !.op = "getCurrentReading", !.st = "collecting",
                                !.timer = TRUE, !.deadline = ReadingTimeout,
                                !.window = ReadingTimeout]
  /\ SignerUntouched

\* detectStepsWithProof(durationMs), detectShake(thresholdG, durationMs):
\* listener and a timeout of durationMs
StartDetect(op, window, deviceId) ==
  /\ sensor.st = "idle"
  /\ sensor' = [NoSensor EXCEPT !.op = op, !.st = "collecting", !.timer = TRUE,
                                !.deadline = window, !.window = window,
                                !.deviceId = deviceId]
  /\ SignerUntouched

\* getCurrentLocation, generateLocationProof, generateEnrichedLocationProof:
\* await Location.getCurrentPositionAsync(...), no timer
StartGPS(op, deviceId) ==
  /\ sensor.st = "idle"
  /\ sensor' = [NoSensor EXCEPT !.op = op, !.st = "locating", !.deviceId = deviceId]
  /\ SignerUntouched

\* one path of a sampling operation wins: resolved = true, the hard timeout
\* is cleared or has fired, the listener is removed, and buildMovementProof /
\* buildProof is called with the readings pushed so far
Won(s, by) ==
  [s EXCEPT !.st = "building", !.timer = FALSE, !.listener = FALSE, !.by = by,
            !.builds = @ + 1, !.atWin = s.readings]

\* the listener is called with a reading
SensorEvent ==
  /\ sensor.st = "collecting"
  /\ LET n == sensor.readings + 1
         s == [sensor EXCEPT !.readings = n] IN
     CASE sensor.op \in SamplingOps ->
            \* count >= samples: resolved = true, clearTimeout(hardTimeout),
            \* the listener is removed, the proof is being built
            /\ sensor' = IF n >= sensor.samples THEN Won(s, "listener") ELSE s
            /\ SignerUntouched
       [] sensor.op = "getCurrentReading" ->
            /\ sensor' = [s EXCEPT !.st = "resolved", !.timer = FALSE, !.by = "listener"]
            /\ SignerUntouched
       [] sensor.op = "detectShake" ->
            /\ n <= MaxSamples
            /\ \E over \in BOOLEAN : sensor' = [s EXCEPT !.shake = sensor.shake \/ over]
            /\ SignerUntouched
       [] OTHER ->
            /\ n <= MaxSamples
            /\ sensor' = s
            /\ SignerUntouched

\* the timer of the operation fires
TimerFires ==
  /\ sensor.st = "collecting"
  /\ sensor.timer
  /\ sensor.clock = sensor.deadline
  /\ CASE sensor.op \in SamplingOps ->
            IF sensor.readings = 0
              THEN /\ sensor' = [sensor EXCEPT !.st = "rejected", !.timer = FALSE,
                                               !.listener = FALSE,
                                               !.by = "timeout", !.settles = @ + 1,
                                               !.error = "No data received"]
                   /\ SignerUntouched
              ELSE /\ sensor' = Won(sensor, "timeout")
                   /\ SignerUntouched
       [] sensor.op = "getCurrentReading" ->
            /\ sensor' = [sensor EXCEPT !.st = "rejected", !.timer = FALSE,
                                        !.by = "timeout", !.error = "timeout after 5s"]
            /\ SignerUntouched
       [] sensor.op = "detectStepsWithProof" ->
            \E steps \in 0..sensor.readings :
              BuildAndSettle(sensor,
                [type |-> "accelerometer", timestamp |-> 1,
                 data |-> JSObject(<<Member("steps", JSNumber(steps)),
                                     Member("averageReading",
                                            JSObject(<<Member("x", JSNumber(1))>>))>>),
                 deviceId |-> sensor.deviceId], "timeout")
       [] OTHER ->
            \* detectShake: without a shake it resolves at once; with one, the
            \* proof is attached when generateProof resolved, left out otherwise
            IF ~sensor.shake
              THEN /\ sensor' = [sensor EXCEPT !.st = "resolved", !.timer = FALSE,
                                               !.by = "timeout"]
                   /\ SignerUntouched
              ELSE LET sensorData ==
                         [type |-> "accelerometer", timestamp |-> 1,
                          data |-> JSObject(<<Member("maxMagnitude", JSNumber(1))>>),
                          deviceId |-> sensor.deviceId] IN
                   /\ generateProofBody(sensorData)
                   /\ sensor' = [sensor EXCEPT
                                   !.st = "resolved", !.timer = FALSE, !.by = "timeout",
                                   !.proof = IF lastCall'.outcome = "returned"
                                               THEN ProofBuilt(sensorData) ELSE NoProof]

\* the proof of a sampling operation is built, or generateProof rejected:
\* resolve(...) / reject(err)
BuildDone ==
  /\ sensor.st = "building"
  /\ BuildAndSettle(sensor, SampledData(sensor.op, sensor.atWin, sensor.deviceId),
                    sensor.by)

\* faulty variant: a reading that arrives after one path has won is collected
LateEvent_Collects ==
  /\ sensor.op \in SamplingOps
  /\ sensor.st \in {"building", "resolved", "rejected"}
  /\ sensor.late = 0
  /\ sensor' = [sensor EXCEPT !.late = 1, !.readings = @ + 1,
                              !.builds = IF sensor.readings + 1 >= sensor.samples
                                           THEN @ + 1 ELSE @]
  /\ SignerUntouched

\* a reading the sensor had already emitted reaches the listener after one
\* path has won: `if (resolved) return`
LateEvent ==
  /\ sensor.op \in SamplingOps
  /\ sensor.st \in {"building", "resolved", "rejected"}
  /\ sensor.late = 0
  /\ sensor' = [sensor EXCEPT !.late = 1]
  /\ SignerUntouched

\* Location.getCurrentPositionAsync resolves with a fix
FixArrives ==
  /\ sensor.st = "locating"
  /\ CASE sensor.op = "getCurrentLocation" ->
            /\ sensor' = [sensor EXCEPT !.st = "resolved", !.by = "fix"]
            /\ SignerUntouched
       [] sensor.op = "generateLocationProof" ->
            BuildAndSettle(sensor,
              [type |-> "gps", timestamp |-> 1,
               data |-> JSObject(<<Member("latitude", JSNumber(1))>>),
               deviceId |-> sensor.deviceId], "fix")
       [] OTHER ->
            /\ sensor' = [sensor EXCEPT !.st = "geocoding"]
            /\ SignerUntouched

\* Location.reverseGeocodeAsync resolves: the enriched reading is signed
GeocodeArrives ==
  /\ sensor.st = "geocoding"
  /\ BuildAndSettle(sensor,
       [type |-> "gps", timestamp |-> 1,
        data |-> JSObject(<<Member("latitude", JSNumber(1))>>),
        deviceId |-> sensor.deviceId], "fix")

\* the location service rejects
LocationFails ==
  /\ sensor.st \in {"locating", "geocoding"}
  /\ sensor' = [sensor EXCEPT !.st = "rejected", !.by = "service",
                              !.error = "location unavailable"]
  /\ SignerUntouched

\* a second passes while the operation waits; a timer that is due fires first
Tick ==
  /\ sensor.st \in Waiting
  /\ sensor.clock < MaxClock
  /\ ~(sensor.timer /\ sensor.clock >= sensor.deadline)
  /\ sensor' = [sensor EXCEPT !.clock = sensor.clock + 1]
  /\ SignerUntouched

SensorFrame ==
  UNCHANGED <<savedBase64, walletAddress, storeVars, hookVars, apiVars, merkleVars,
              pg, batch>>

NextSensor ==
  \/ /\ \E op \in SamplingOps, window \in 1..MaxWindow, samples \in 1..MaxSamples,
          deviceId \in DeviceModelIds : StartSampling(op, window, samples, deviceId)
     /\ SensorFrame
  \/ StartGetCurrentReading /\ SensorFrame
  \/ /\ \E op \in {"detectStepsWithProof", "detectShake"}, window \in 1..MaxWindow,
          deviceId \in DeviceModelIds : StartDetect(op, window, deviceId)
     /\ SensorFrame
  \/ (\E op \in GPSOps, deviceId \in DeviceModelIds : StartGPS(op, deviceId)) /\ SensorFrame
  \/ SensorEvent /\ SensorFrame
  \/ TimerFires /\ SensorFrame
  \/ BuildDone /\ SensorFrame
  \/ LateEvent /\ SensorFrame
  \/ FixArrives /\ SensorFrame
  \/ GeocodeArrives /\ SensorFrame
  \/ LocationFails /\ SensorFrame
  \/ Tick /\ SensorFrame

InitSensor == InitProof

\* the operations of the sensor proof generators, one at a time
SpecSensor == InitSensor /\ [][NextSensor]_vars

\* ------------------------------------- submitPendingProofs called repeatedly
\* The store holds what the store operations left in it; a program id and a
\* wallet are given, the transport accepts every submission, AsyncStorage
\* works.  Nothing but submitPendingProofs is called.

SetupCalls == 3         \* store calls made before the draining begins

\* the lists saveProof, markAsSubmitted and markAsFailed leave after at most n
\* calls on the empty store
RECURSIVE StoresAfter(_)
StoresAfter(n) ==
  IF n = 0 THEN {<<>>}
  ELSE LET before == StoresAfter(n - 1) IN
       before
         \cup {saveProofOp(s, h) : s \in {t \in before : Len(t) < MaxStore}, h \in Hashes}
         \cup {markAsSubmittedOp(s, h, "tx_1", 1) : s \in before, h \in Hashes}
         \cup {markAsFailedOp(s, h, "network") : s \in before, h \in Hashes}

InitDrain ==
  /\ ApiIdle /\ MerkleIdle /\ SignerIdle /\ ProofIdle
  /\ storage \in StoresAfter(SetupCalls)
  /\ storeFaults = FALSE
  /\ programId = TRUE
  /\ autoRetry \in BOOLEAN
  /\ maxRetries \in 0..MaxRetriesOpt
  /\ isSubmitting = FALSE
  /\ retryCount = 0
  /\ pc = "idle"
  /\ frame = NoFrame
  /\ outer = NoOuter
  /\ result = NoResult
  /\ hist = NoHist
  /\ slots = [c \in 1..2 |-> IdleSlot]
  /\ base = [storage |-> <<>>, overlap |-> FALSE]
  /\ ConcIdle

\* submitProofToChain / submitBatchToChain resolve with a signature
TransportAccepts == ~hist'.transportFailed

NextDrain ==
  \/ \E batchSize \in 0..MaxBatchSize : SubmitPendingProofs(TRUE, batchSize)
  \/ SubmitProofToChain /\ TransportAccepts
  \/ SubmitProofMark
  \/ SubmitBatchToChain /\ TransportAccepts
  \/ Ack

\* every call that can be made or continued is made or continued
SpecDrain == InitDrain /\ [][NextDrain]_vars /\ WF_vars(NextDrain)

\* --------------------------------------- two overlapping calls of the hook
\* Two callers of one useProofSubmission hook.  A call runs from one await to
\* the next in one step; between two steps of a call the other caller may
\* run.  The hook has no lock: isSubmitting is set and never tested.

InFlight(c) == race[c].st \notin {"idle", "done"}

\* the caller starts a call; it overlaps the call of the other caller when
\* that one is in flight
Started(c, fn, taken) ==
  LET d == 3 - c IN
  [race EXCEPT ![c] = [NoCaller EXCEPT !.st = "taken", !.fn = fn, !.taken = taken,
                                       !.overlapped = InFlight(d)],
               ![d].overlapped = @ \/ InFlight(d)]

\* submitPendingProofs(wallet, batchSize) up to the call of submitProof /
\* submitBatchProof: await proofStorage.getSubmissionQueue(batchSize)
TakePending(c, batchSize) ==
  /\ race[c].st = "idle"
  /\ LET pending == getSubmissionQueue(storage, <<batchSize>>)
         proofs == [i \in 1..Len(pending) |-> pending[i].proofHash] IN
     race' = IF Len(pending) = 0
               THEN [race EXCEPT ![c] = [NoCaller EXCEPT !.st = "done",
                                                         !.fn = "submitPendingProofs"]]
               ELSE Started(c, "submitPendingProofs", proofs)
  /\ UNCHANGED storage

\* submitProof(proof, wallet) called directly
CallSubmitProof(c, h) ==
  /\ race[c].st = "idle"
  /\ race' = Started(c, "submitProof", <<h>>)
  /\ UNCHANGED storage

\* the proof objects the call hands on: parsed from the store by
\* submitPendingProofs, built by the caller of submitProof
HandedOn(c) ==
  [k \in 1..Len(race[c].taken) |->
     IF race[c].fn = "submitPendingProofs"
       THEN JSONparseProof(JSONstringifyProof(SensorProofOf(race[c].taken[k])))
       ELSE SensorProofOf(race[c].taken[k])]

\* await submitProofToChain(...) for one proof; for several,
\* await createProofBundle(proofs), which may throw, then
\* await submitBatchToChain(...): the transport accepts or fails
Transport(c) ==
  /\ race[c].st = "taken"
  /\ IF Len(race[c].taken) > 1 /\ createMerkleRoot(HandedOn(c)).threw
       THEN race' = [race EXCEPT ![c].st = "done"]
       ELSE \/ \E sig \in Signatures :
                 race' = [race EXCEPT ![c].st = "accepted", ![c].sent = TRUE,
                                      ![c].signature = sig]
            \/ \E e \in ErrorMessages :
                 race' = [race EXCEPT ![c].st = "failed", ![c].sent = TRUE,
                                      ![c].err = e]
  /\ UNCHANGED storage

RECURSIVE markAll(_, _, _, _)
markAll(s, hs, sig, now) ==
  IF hs = <<>> THEN s
  ELSE markAll(markAsSubmittedOp(s, Head(hs), sig, now), Tail(hs), sig, now)

\* await proofStorage.markAsSubmitted(proof.proofHash, signature), for every
\* proof of the call; return
MarkTaken(c) ==
  /\ race[c].st = "accepted"
  /\ \E now \in Times :
       storage' = markAll(storage, race[c].taken, race[c].signature, now)
  /\ race' = [race EXCEPT ![c].st = "done"]

\* catch of submitProof: await proofStorage.markAsFailed(...), then the retry
\* test; catch of submitBatchProof: return null
FailTaken(c) ==
  /\ race[c].st = "failed"
  /\ storage' = IF Len(race[c].taken) = 1
                  THEN markAsFailedOp(storage, race[c].taken[1], race[c].err)
                  ELSE storage
  /\ race' = IF Len(race[c].taken) = 1 /\ ShouldRetry(0)
               THEN [race EXCEPT ![c].st = "taken"]
               ELSE [race EXCEPT ![c].st = "done"]

RaceFrame ==
  UNCHANGED <<storeFaults, optionVars, otherVars, reactVars, callVars, slots, base, flight,
              sub>>

NextRace ==
  \/ (\E c \in 1..2, batchSize \in 0..MaxBatchSize : TakePending(c, batchSize)) /\ RaceFrame
  \/ (\E c \in 1..2, h \in Hashes : CallSubmitProof(c, h)) /\ RaceFrame
  \/ (\E c \in 1..2 : Transport(c)) /\ RaceFrame
  \/ (\E c \in 1..2 : MarkTaken(c)) /\ RaceFrame
  \/ (\E c \in 1..2 : FailTaken(c)) /\ RaceFrame

\* the hook over a stored list, no automatic retry
InitRace == InitDrain /\ maxRetries = 0

\* two callers, each making one call of the hook
SpecRace == InitRace /\ [][NextRace]_vars

\* ------------------------------- signData and disconnect, running together
\* One signData call and one MWAContext.disconnect call, each taken from one
\* await to the next in one step, so that the steps of the two interleave.
\* The wallet is the environment, as above: it answers a request or the
\* transact fails.

\* signData(data): the guard on the three fields; transact is entered and
\* wallet.reauthorize is asked with the token held now
SignBegin ==
  /\ flight.sign.st = "idle"
  /\ flight' = IF authorizedPublicKey = NullKey \/ authToken = Null \/ base64Address = Null
                 THEN [flight EXCEPT !.sign.st = "done", !.sign.outcome = "threw"]
                 ELSE [flight EXCEPT !.sign.st = "reauthorize", !.sign.token = authToken]
  /\ UNCHANGED <<sessionVars, validTokens, savedToken, savedBase64, walletAddress>>

\* wallet.reauthorize resolved: this.authToken = reauth.auth_token, then
\* AsyncStorage.setItem(AUTH_TOKEN_KEY, ...) is awaited; or it rejected and
\* signData throws
SignReauthorized ==
  /\ flight.sign.st = "reauthorize"
  /\ \/ /\ flight.sign.token \in validTokens
        /\ \E t \in 1..NumTokens :
             /\ authToken' = TokenOf(t)
             /\ validTokens' = validTokens \cup {TokenOf(t)}
             /\ flight' = [flight EXCEPT !.sign.st = "persist", !.sign.token = TokenOf(t)]
        /\ UNCHANGED <<authorizedPublicKey, base64Address>>
     \/ /\ flight' = [flight EXCEPT !.sign.st = "done", !.sign.outcome = "threw"]
        /\ UNCHANGED <<sessionVars, validTokens>>
  /\ UNCHANGED <<savedToken, savedBase64, walletAddress>>

\* the setItem of the refreshed token takes effect; wallet.signMessages is asked
SignPersist ==
  /\ flight.sign.st = "persist"
  /\ savedToken' = flight.sign.token
  /\ flight' = [flight EXCEPT !.sign.st = "sign"]
  /\ UNCHANGED <<sessionVars, validTokens, savedBase64, walletAddress>>

\* wallet.signMessages resolved or rejected; signData returns or throws
SignSigned ==
  /\ flight.sign.st = "sign"
  /\ \E outcome \in {"returned", "threw"} :
       /\ outcome = "returned" => base64Address # Null
       /\ flight' = [flight EXCEPT !.sign.st = "done", !.sign.outcome = outcome]
  /\ UNCHANGED <<sessionVars, validTokens, savedToken, savedBase64, walletAddress>>

\* disconnect(): const savedToken = await AsyncStorage.getItem(AUTH_TOKEN_KEY)
DisconnectBegin ==
  /\ flight.disc.st = "idle"
  /\ flight' = [flight EXCEPT !.disc.st = IF savedToken # Null THEN "deauthorize"
                                                               ELSE "remove",
                              !.disc.token = savedToken]
  /\ UNCHANGED <<sessionVars, validTokens, savedToken, savedBase64, walletAddress>>

\* transact(wallet.deauthorize({ auth_token: savedToken })): the token is
\* revoked, or the transact fails and the catch logs
DisconnectWallet ==
  /\ flight.disc.st = "deauthorize"
  /\ Revocation(flight.disc.token)
  /\ flight' = [flight EXCEPT !.disc.st = "remove"]
  /\ UNCHANGED <<sessionVars, savedToken, savedBase64, walletAddress>>

\* finally: AsyncStorage.multiRemove([AUTH_TOKEN_KEY, BASE64_ADDRESS_KEY]) takes effect
DisconnectRemove ==
  /\ flight.disc.st = "remove"
  /\ savedToken' = Null
  /\ savedBase64' = Null
  /\ flight' = [flight EXCEPT !.disc.st = "clear"]
  /\ UNCHANGED <<sessionVars, validTokens, walletAddress>>

\* after the await: clearAuthorization(), setWalletAddress(null); disconnect returns
DisconnectClear ==
  /\ flight.disc.st = "clear"
  /\ authorizedPublicKey' = NullKey
  /\ authToken' = Null
  /\ base64Address' = Null
  /\ walletAddress' = NullKey
  /\ flight' = [flight EXCEPT !.disc.st = "done"]
  /\ UNCHANGED <<validTokens, savedToken, savedBase64>>

FlightFrame ==
  UNCHANGED <<lastCall, sinceDeauthorize, storeVars, optionVars, reactVars, callVars,
              slots, base, race, sub, proofVars, apiVars, merkleVars>>

NextFlight ==
  \/ SignBegin /\ FlightFrame
  \/ SignReauthorized /\ FlightFrame
  \/ SignPersist /\ FlightFrame
  \/ SignSigned /\ FlightFrame
  \/ DisconnectBegin /\ FlightFrame
  \/ DisconnectWallet /\ FlightFrame
  \/ DisconnectRemove /\ FlightFrame
  \/ DisconnectClear /\ FlightFrame

InitFlight == InitSigner

\* one signData call and one disconnect call whose steps interleave
SpecFlight == InitFlight /\ [][NextFlight]_vars

\* ------------------------------------------- continuous-tracking subscriptions
\* subscribeWithProofs (accelerometer) and watchLocationWithProofs (GPS): the
\* listener is called by the platform for every update while the subscription
\* is attached; it starts a proof construction and awaits generateProof.  The
\* handle returned to the caller is the platform subscription itself.

\* subscribeWithProofs(callback, { proofInterval }) /
\* watchLocationWithProofs(callback): the listener is attached
Subscribe(fn, proofInterval) ==
  /\ sub.st = "none"
  /\ sub' = [NoSub EXCEPT !.st = "attached", !.fn = fn, !.proofInterval = proofInterval]
  /\ SignerUntouched

\* faulty variant: the listener is still called after remove()
SensorUpdate_AfterRemove ==
  /\ sub.st \in {"attached", "removed"}
  /\ sub.updateCount < MaxUpdates
  /\ LET n == sub.updateCount + 1
         starts == n % sub.proofInterval = 0 IN
     sub' = [sub EXCEPT !.updateCount = n,
                        !.started = IF starts THEN @ + 1 ELSE @,
                        !.inFlight = IF starts THEN @ + 1 ELSE @]
  /\ SignerUntouched

\* the platform calls the listener with an update: every proofInterval-th
\* update (every location, for GPS) builds sensorData and awaits generateProof
SensorUpdate ==
  /\ sub.st = "attached"
  /\ sub.updateCount < MaxUpdates
  /\ LET n == sub.updateCount + 1
         starts == n % sub.proofInterval = 0 IN
     sub' = [sub EXCEPT !.updateCount = n,
                        !.started = IF starts THEN @ + 1 ELSE @,
                        !.inFlight = IF starts THEN @ + 1 ELSE @]
  /\ SignerUntouched

\* generateProof of a construction in flight resolves and the callback is
\* called with the proof, or it rejects and the catch logs
ConstructionDone ==
  /\ sub.inFlight > 0
  /\ generateProofBody([type |-> IF sub.fn = "subscribeWithProofs"
                                   THEN "accelerometer" ELSE "gps",
                        timestamp |-> 1,
                        data |-> JSObject(<<Member("x", JSNumber(1)),
                                            Member("sampleCount",
                                                   JSNumber(sub.proofInterval))>>),
                        deviceId |-> "unknown"])
  /\ sub' = IF lastCall'.outcome = "returned"
              THEN [sub EXCEPT !.inFlight = @ - 1, !.delivered = @ + 1,
                               !.deliveredAfterRemove =
                                  IF sub.st = "removed" THEN @ + 1 ELSE @]
              ELSE [sub EXCEPT !.inFlight = @ - 1, !.failed = @ + 1]

\* the caller calls subscription.remove()
Remove ==
  /\ sub.st = "attached"
  /\ sub' = [sub EXCEPT !.st = "removed", !.startedAtRemove = sub.started,
                        !.inFlightAtRemove = sub.inFlight]
  /\ SignerUntouched

SubFrame ==
  UNCHANGED <<savedBase64, walletAddress, storeVars, optionVars, reactVars, callVars,
              slots, base, race, flight, apiVars, merkleVars, proofVars>>

NextSub ==
  \/ /\ \/ \E proofInterval \in 1..MaxProofInterval :
             Subscribe("subscribeWithProofs", proofInterval)
        \/ Subscribe("watchLocationWithProofs", 1)
     /\ SubFrame
  \/ SensorUpdate /\ SubFrame
  \/ ConstructionDone /\ SubFrame
  \/ Remove /\ SubFrame

InitSub == InitProof

\* one subscription from subscribe to remove and after
SpecSub == InitSub /\ [][NextSub]_vars

\* ------------------------------------------------------------------ claims

\* C1: when two write operations on the store overlapped, the stored list
\* after both have finished is what running them one after the other, in one
\* of the two orders, leaves.
C1_OverlappingWritesSerialize ==
  (/\ slots[1].st = "done" /\ slots[2].st = "done" /\ base.overlap)
    => storage \in {Apply(slots[2], Apply(slots[1], base.storage)),
                    Apply(slots[1], Apply(slots[2], base.storage))}


\* helpers of the claims
CountHash(s, h) == Cardinality({i \in 1..Len(s) : s[i].proofHash = h})
IsStored(s, h) == getProofByHash(s, h) # <<>>
Stored(s, h) == getProofByHash(s, h)[1]
BatchStoredUnsubmittedAtStart ==
  \A k \in 1..Len(frame.proofs) :
    /\ IsStored(hist.startStorage, frame.proofs[k])
    /\ ~Stored(hist.startStorage, frame.proofs[k]).submitted

\* C2: saving a proof whose proofHash is already stored (saveProof, or
\* saveBatchProofs) leaves exactly one record with that proofHash, and that
\* record keeps its submission state.
C2_SaveKeepsOneRecordPerHash ==
  [][/\ \A h \in Hashes :
          (CountHash(storage, h) = 1 /\ SaveProof(h))
            => /\ CountHash(storage', h) = 1
               /\ Stored(storage', h) = Stored(storage, h)
     /\ \A hs \in BatchInputs :
          SaveBatchProofs(hs)
            => \A k \in 1..Len(hs) :
                 CountHash(storage, hs[k]) = 1
                   => /\ CountHash(storage', hs[k]) = 1
                      /\ Stored(storage', hs[k]) = Stored(storage, hs[k])]_vars

\* C3: with autoRetry enabled, one submitProof call makes at most
\* maxRetries + 1 transport attempts.
C3_AttemptsBoundedByMaxRetries ==
  (frame.fn = "submitProof" /\ autoRetry) => hist.attempts <= maxRetries + 1

\* C4: when the transport call of submitBatchProof has failed, the store is,
\* after the call returned, what it was when the call started: no proof of the
\* batch was marked, none carries a transaction reference it did not have.
C4_FailedBatchLeavesStore ==
  (pc = "returned" /\ frame.fn = "submitBatchProof" /\ hist.transportFailed)
    => /\ storage = hist.startStorage
       /\ hist.marked = <<>>
       /\ result.inner = "null"

C4_Witness ==
  /\ pc = "returned"
  /\ frame.fn = "submitBatchProof"
  /\ hist.transportFailed
  /\ Len(frame.proofs) = 2
  /\ frame.proofs[1] # frame.proofs[2]
  /\ BatchStoredUnsubmittedAtStart
  /\ \A k \in 1..2 : Stored(storage, frame.proofs[k]).transactionSignature = Undefined

\* C5: however submitBatchProof ends for a batch of stored, unsubmitted
\* proofs, either every proof of the batch is marked submitted or none is.
C5_BatchMarkedAllOrNone ==
  (pc = "returned" /\ frame.fn = "submitBatchProof" /\ BatchStoredUnsubmittedAtStart)
    => \/ \A k \in 1..Len(frame.proofs) : Stored(storage, frame.proofs[k]).submitted
       \/ \A k \in 1..Len(frame.proofs) : ~Stored(storage, frame.proofs[k]).submitted

\* C6: when submitBatchProof returns a transaction reference for a batch of
\* stored, unsubmitted proofs, every proof of the batch is stored as submitted
\* with exactly that reference.
C6_BatchCarriesOneReference ==
  (/\ pc = "returned"
   /\ frame.fn = "submitBatchProof"
   /\ result.inner = "signature"
   /\ BatchStoredUnsubmittedAtStart)
    => \A k \in 1..Len(frame.proofs) :
         /\ IsStored(storage, frame.proofs[k])
         /\ Stored(storage, frame.proofs[k]).submitted
         /\ Stored(storage, frame.proofs[k]).transactionSignature = result.signature
         /\ result.signature \in Signatures

C6_Witness ==
  /\ pc = "returned"
  /\ frame.fn = "submitBatchProof"
  /\ result.inner = "signature"
  /\ result.signature = "tx_1"
  /\ Len(frame.proofs) = 2
  /\ frame.proofs[1] # frame.proofs[2]
  /\ BatchStoredUnsubmittedAtStart
  /\ \A k \in 1..2 : Stored(storage, frame.proofs[k]).transactionSignature = "tx_1"


\* the lifecycle states a record is in, by the classes getStats counts
\* (the StoredProof of the source has no field for Confirmed)
LifecycleStates(sp) ==
  (IF IsSubmittedStat(sp) THEN {"Submitted"} ELSE {})
    \cup (IF IsPendingStat(sp) THEN {"Pending"} ELSE {})
    \cup (IF IsFailedStat(sp) THEN {"Failed"} ELSE {})

AllowedTransitions ==
  {<<{"Pending"}, {"Submitted"}>>, <<{"Pending"}, {"Failed"}>>,
   <<{"Failed"}, {"Pending"}>>, <<{"Failed"}, {"Submitted"}>>,
   <<{"Submitted"}, {"Confirmed"}>>, <<{"Submitted"}, {"Failed"}>>}

\* C7: every stored record is in exactly one lifecycle state, and a record
\* that stays in place moves only along the allowed transitions.
C7_OneStateAllowedMoves ==
  [][/\ \A i \in 1..Len(storage') : Cardinality(LifecycleStates(storage'[i])) = 1
     /\ \A i \in 1..Len(storage) :
          (/\ Len(storage') = Len(storage)
           /\ storage'[i].proofHash = storage[i].proofHash
           /\ LifecycleStates(storage'[i]) # LifecycleStates(storage[i]))
            => <<LifecycleStates(storage[i]), LifecycleStates(storage'[i])>>
                 \in AllowedTransitions]_vars

IsFailedUnsubmitted(sp) == ~sp.submitted /\ sp.error # Undefined
HasFailedUnsubmitted(s, h) ==
  \E i \in 1..Len(s) : s[i].proofHash = h /\ IsFailedUnsubmitted(s[i])
HasUnsubmitted(s, h) ==
  \E i \in 1..Len(s) : s[i].proofHash = h /\ ~s[i].submitted

FailedStayQueued(s) ==
  \A i \in 1..Len(s) :
    IsFailedUnsubmitted(s[i])
      => /\ s[i] \in Range(getPendingProofs(s))
         /\ s[i] \in Range(getSubmissionQueue(s, <<>>))
         /\ s[i] \in Range(getSubmissionQueue(s, <<Len(s)>>))

\* C9: a stored record whose submission failed and that is not submitted is
\* returned by getPendingProofs and by getSubmissionQueue; a proof with such a
\* record stops being pending only by a step that marks it submitted or by
\* a purge (clearOldProofs, clearAllProofs).
C9_FailedStaysEligible ==
  [][/\ FailedStayQueued(storage')
     /\ \A h \in Hashes :
          (HasFailedUnsubmitted(storage, h) /\ ~HasUnsubmitted(storage', h))
            => \/ \E sig \in Signatures, now \in Times :
                    storage' = markAsSubmittedOp(storage, h, sig, now)
               \/ \E cutoffDate \in 0..MaxTimestamp :
                    storage' = clearOldProofsOp(storage, cutoffDate)
               \/ storage' = <<>>]_vars

\* a proof whose submission failed is taken again by submitPendingProofs
C9_Witness ==
  /\ outer.active
  /\ pc = "submitProofToChain"
  /\ hist.attempts = 0
  /\ IsStored(storage, frame.proofs[1])
  /\ IsFailedUnsubmitted(Stored(storage, frame.proofs[1]))

\* C10: submitPendingProofs(wallet, batchSize) takes at most batchSize
\* proofs, oldest first, hands one proof to submitProof and several to one
\* submitBatchProof call, and returns the number of proofs it took.
C10_DrainTakesAtMostBatchSize ==
  (pc = "returned" /\ outer.active)
    => /\ Len(outer.taken) <= outer.batchSize
       /\ \A i, j \in 1..Len(outer.taken) :
            i < j => ProofTimestamp(outer.taken[i]) <= ProofTimestamp(outer.taken[j])
       /\ Len(outer.taken) = 1 => (frame.fn = "submitProof" /\ frame.proofs = outer.taken)
       /\ Len(outer.taken) >= 2
            => (frame.fn = "submitBatchProof" /\ frame.proofs = outer.taken)
       /\ result.fn = "submitPendingProofs"
       /\ result.count = Len(outer.taken)

\* sensorData.timestamp of a record as a caller reads it
TimestampOf(sp) == sp.proof.sensorData.timestamp

\* C11: for every limit >= 0, getSubmissionQueue(limit) returns at most limit
\* records; they are all unsubmitted, ordered by non-decreasing
\* sensorData.timestamp, and no unsubmitted record that was left out is older
\* than a returned one.
C11_QueueBoundedOldestFirst ==
  (ret.op = "getSubmissionQueue" /\ ret.limit # <<>>)
    => LET queue == ret.value
           pending == LoadedProofs(getPendingProofs(storage))
       IN /\ Len(queue) <= ret.limit[1]
          /\ \A i \in 1..Len(queue) :
               ~queue[i].submitted /\ queue[i] \in Range(pending)
          /\ \A i, j \in 1..Len(queue) :
               i < j => TimestampOf(queue[i]) <= TimestampOf(queue[j])
          /\ \A sp \in Range(pending) \ Range(queue) :
               \A i \in 1..Len(queue) : TimestampOf(queue[i]) <= TimestampOf(sp)

WriteOps ==
  {"saveProof", "saveBatchProofs", "markAsSubmitted", "markAsFailed",
   "importProofs", "clearOldProofs", "compactStorage"}
ReadOps ==
  {"getAllProofs", "getPendingProofs", "getSubmissionQueue", "getProofByHash",
   "exportProofs"}

\* C12: when the backing data of the store could not be read or parsed, a
\* write operation fails with an error, and a read operation returns an empty
\* result without throwing.
C12_UnreadableStoreFailsWrites ==
  ~ret.readOk
    => /\ ret.op \in WriteOps => ret.threw
       /\ ret.op \in ReadOps => (~ret.threw /\ ret.value = <<>>)

\* the records importProofs added to the stored list
AddedByImport == SubSeq(storage, Len(ret.before) + 1, Len(storage))

\* C13: importProofs leaves every record that was stored as it was, in its
\* place, adds exactly one record, taken from the snapshot, for each imported
\* proofHash that was not stored, and returns the number of records added.
C13_ImportKeepsStoredAddsNew ==
  (ret.op = "importProofs" /\ ~ret.threw)
    => LET importedProofs == JSONparse(ret.imported) IN
       /\ Len(storage) >= Len(ret.before)
       /\ SubSeq(storage, 1, Len(ret.before)) = ret.before
       /\ \A h \in Hashes :
            CountHash(AddedByImport, h)
              = IF /\ \E i \in 1..Len(importedProofs) : importedProofs[i].proofHash = h
                   /\ CountHash(ret.before, h) = 0
                  THEN 1 ELSE 0
       /\ \A i \in 1..Len(AddedByImport) : AddedByImport[i] \in Range(importedProofs)
       /\ ret.count = Len(AddedByImport)

\* a snapshot of two records is imported: one has the proofHash of a stored,
\* submitted record and differs from it, the other is new
C13_Witness ==
  /\ ret.op = "importProofs"
  /\ ~ret.threw
  /\ ret.count = 1
  /\ Len(JSONparse(ret.imported)) = 2
  /\ Len(ret.before) = 1
  /\ ret.before[1].submitted
  /\ JSONparse(ret.imported)[1].proofHash = ret.before[1].proofHash
  /\ JSONparse(ret.imported)[1] # ret.before[1]
  /\ storage = Append(ret.before, JSONparse(ret.imported)[2])

\* C14: a record read back with getAllProofs equals the proof that was saved
\* in every field, signature and signer key included, and a proof that
\* verified before it was stored verifies after the reload; the records an
\* import into an empty store leaves are the records of the snapshot.
C14_RecordsSurvivePersistence ==
  /\ (ret.op = "getAllProofs" /\ ret.readOk)
       => \A i \in 1..Len(ret.value) :
            LET original == SensorProofOf(ret.value[i].proofHash) IN
            /\ ret.value[i].proof = original
            /\ verifyProofLocally(original) => verifyProofLocally(ret.value[i].proof)
  /\ (ret.op = "importProofs" /\ ~ret.threw /\ ret.before = <<>>)
       => /\ Range(storage) \subseteq Range(JSONparse(ret.imported))
          /\ \A sp \in Range(JSONparse(ret.imported)) : IsStored(storage, sp.proofHash)

\* recomputing the root from a leaf and a path: one path element per level,
\* current + sibling at an even index, sibling + current at an odd one
RECURSIVE foldPath(_, _, _)
foldPath(current, index, path) ==
  IF path = <<>> THEN current
  ELSE foldPath(IF index % 2 = 0 THEN sha256(current \o Head(path))
                                 ELSE sha256(Head(path) \o current),
                index \div 2, Tail(path))

\* C15: for a non-empty proof list and a valid index i, folding the elements
\* of getMerkleProofPath(i, tree) into leaf i, one per level, gives the root
\* createMerkleRoot returned.
C15_PathFoldsToRoot ==
  mk.st = "path"
    => foldPath(mk.tree[1][mk.proofIndex + 1], mk.proofIndex, mk.path) = mk.root

RECURSIVE Pow2(_)
Pow2(n) == IF n = 0 THEN 1 ELSE 2 * Pow2(n - 1)

\* the index, counted from 0, of the ancestor of leaf i at level l (from 1)
AncestorIndex(i, l) == i \div Pow2(l - 1)

\* C16: getMerkleProofPath returns exactly one hash per level below the root,
\* leaf to root: the sibling of the current node at that level, or the node
\* itself when it is the unpaired last node of an odd-length level; a
\* single-leaf tree gives the empty path.
C16_PathHasOneHashPerLevel ==
  mk.st = "path"
    => /\ Len(mk.path) = Len(mk.tree) - 1
       /\ \A l \in 1..(Len(mk.tree) - 1) :
            LET index == AncestorIndex(mk.proofIndex, l)
                siblingIndex == IF index % 2 = 1 THEN index - 1 ELSE index + 1
            IN mk.path[l] = IF siblingIndex < Len(mk.tree[l])
                              THEN mk.tree[l][siblingIndex + 1]
                              ELSE mk.tree[l][index + 1]
       /\ Len(mk.proofs) = 1 => mk.path = <<>>

\* the leaf hashes of the proof list, in input order
LeafHashes ==
  [i \in 1..Len(mk.proofs) |-> sha256(serializeProof(SensorProofOf(mk.proofs[i])))]

\* C17: the tree createMerkleRoot returns for a non-empty list has the leaf
\* hashes in input order as level 0; every next level has ceil(previous / 2)
\* nodes, node j the hash of left + right of the nodes 2j and 2j+1 below it,
\* the last node of an odd-length level hashed with itself; the root is the
\* single node of the top level, for one proof the leaf itself.
C17_TreeIsPairwiseHashed ==
  mk.st \in {"built", "path"}
    => /\ mk.proofs # <<>>
       /\ mk.tree[1] = LeafHashes
       /\ \A l \in 1..(Len(mk.tree) - 1) :
            /\ Len(mk.tree[l]) > 1
            /\ Len(mk.tree[l + 1]) = (Len(mk.tree[l]) + 1) \div 2
            /\ \A j \in 1..Len(mk.tree[l + 1]) :
                 mk.tree[l + 1][j]
                   = sha256(mk.tree[l][2 * j - 1]
                              \o (IF 2 * j <= Len(mk.tree[l])
                                    THEN mk.tree[l][2 * j]
                                    ELSE mk.tree[l][2 * j - 1]))
       /\ Len(mk.tree[Len(mk.tree)]) = 1
       /\ mk.root = mk.tree[Len(mk.tree)][1]
       /\ Len(mk.proofs) = 1 => (mk.root = LeafHashes[1] /\ mk.tree = <<LeafHashes>>)

\* a tree over three proofs: the third leaf is hashed with itself
C17_Witness ==
  /\ mk.st = "built"
  /\ Len(mk.proofs) = 3
  /\ Len(mk.tree) = 3
  /\ mk.tree[1][1] # mk.tree[1][3]
  /\ mk.tree[2][2] = sha256(mk.tree[1][3] \o mk.tree[1][3])
  /\ mk.root = sha256(mk.tree[2][1] \o mk.tree[2][2])

CountIn(log, request) == Cardinality({i \in 1..Len(log) : log[i] = request})

\* C19: when the signing of signData fails because the auth token is stale,
\* signData re-authorizes and retries the signing exactly once (two signing
\* attempts with one authorization between them); in no case does it make
\* more than two signing attempts.
C19_StaleTokenRetriedOnce ==
  lastCall.fn = "signData"
    => /\ CountIn(lastCall.walletLog, "reauthorize") <= 2
       /\ (lastCall.stale /\ lastCall.before[2] # Null)
            => /\ CountIn(lastCall.walletLog, "authorize") = 1
               /\ CountIn(lastCall.walletLog, "reauthorize") = 2

\* C20: authorize called while the signer is authorized returns the cached
\* key without a request to the wallet and leaves public key, auth token and
\* address as they were.
C20_AuthorizeIdempotent ==
  (/\ lastCall.fn = "authorize"
   /\ lastCall.before[1] # NullKey
   /\ lastCall.before[2] # Null
   /\ lastCall.before[3] # Null)
    => /\ lastCall.outcome = "returned"
       /\ lastCall.value = lastCall.before[1]
       /\ lastCall.walletLog = <<>>
       /\ Session = lastCall.before

\* C21: the proof generateProof returned passes verifyProofLocally and
\* verifySensorProof, and the messages ProofGenerator.createMessage and the
\* helper's createSensorMessage rebuild from it are the message that was
\* signed.
C21_GeneratedProofVerifies ==
  pg.st = "verified" =>
    /\ pg.outcomes.local = Value(TRUE)
    /\ pg.outcomes.helper = Value(TRUE)
    /\ createMessage(pg.proof.sensorData).value = pg.messages[1]
    /\ helpersCreateSensorMessage(pg.proof.sensorData).value = pg.messages[1]

\* a proof over a payload with two members was generated and verified
C21_Witness ==
  /\ pg.st = "verified"
  /\ Len(pg.reading.data.members) = 2
  /\ pg.outcomes.local = Value(TRUE)

\* C22: verifyProofLocally is false for the proof with any reading of another
\* content in the place of the reading that was signed.
C22_TamperedReadingFailsVerification ==
  pg.st = "tampered" => pg.outcomes.local = Value(FALSE)

\* C23: every reading with the content of the reading that was signed, in
\* whatever insertion order, gives the message that was signed, from all
\* three message routines and on a repeated call.
C23_MessageIgnoresInsertionOrder ==
  pg.st = "proved" =>
    /\ createSensorMessage(pg.reading).value = pg.messages[1]
    /\ \A s \in Readings :
         SameContent(pg.reading, s) =>
           /\ createSensorMessage(s).value = pg.messages[1]
           /\ createMessage(s).value = pg.messages[2]
           /\ helpersCreateSensorMessage(s).value = pg.messages[3]
    /\ pg.messages[2] = pg.messages[1]
    /\ pg.messages[3] = pg.messages[1]

\* a reading was signed whose payload exists in another insertion order too
C23_Witness ==
  /\ pg.st = "proved"
  /\ \E s \in Readings : s # pg.reading /\ SameContent(pg.reading, s)

HasNonScalar(data) ==
  \E i \in 1..Len(data.members) : ~IsScalar(data.members[i].val)

\* C24: generateProof on a reading whose payload holds an object or an array
\* throws; no message of it is built or signed.
C24_NonScalarPayloadRejected ==
  (pg.st # "idle" /\ HasNonScalar(pg.reading.data)) => pg.st = "threw"

\* C25: the proofHash of a generated proof is the digest hashSensorData
\* computes from its sensorData, and depends on the sensorData alone.
C25_ProofHashIsDigestOfReading ==
  pg.st \in {"proved", "verified", "tampered", "malformed"} =>
    /\ pg.proof.proofHash = bs58encode(naclHash(pg.messages[1]))
    /\ hashSensorData(pg.proof.sensorData) = Value(pg.proof.proofHash)

\* C27: on a proof with a missing payload, an unusable signature or an
\* unusable public key, verifyProofLocally and verifySensorProof return false
\* and do not throw; so does verifySignature when the signature or the key is
\* the unusable part.
C27_MalformedInputGivesFalse ==
  pg.st = "malformed" =>
    /\ pg.outcomes.local = Value(FALSE)
    /\ pg.outcomes.helper = Value(FALSE)
    /\ (pg.subject.sensorData = pg.proof.sensorData)
         => pg.outcomes.signer = Value(FALSE)

\* the three routines were given a proof whose signature is a string, and one
\* whose public key is null
C27_Witness ==
  /\ pg.st = "malformed"
  /\ pg.subject.signature.type = "string" \/ pg.subject.publicKey = NullKey

\* the indices of the readings whose generateProof resolved, in order
Succeeded(outcomes) ==
  SelectSeq([i \in 1..Len(outcomes) |-> i], LAMBDA i : outcomes[i] = "returned")

\* the proof generateProof builds for a reading with the key of the session
ProofOfReading(sensorData, key) ==
  [sensorData |-> sensorData,
   signature |-> Uint8ArrayOf(SignatureBytes(key.value,
                                             createSensorMessage(sensorData).value)),
   publicKey |-> key,
   proofHash |-> bs58encode(naclHash(createSensorMessage(sensorData).value))]

\* C28: generateBatchProofs has gone through all its readings when it
\* returns, and returns, in input order, the proofs of exactly the readings
\* whose generateProof resolved, each the proof of its own reading.
C28_BatchSkipsFailedReadings ==
  batch.st = "returned" =>
    /\ Len(batch.outcomes) = Len(batch.readings)
    /\ Len(batch.proofs) = Len(Succeeded(batch.outcomes))
    /\ \A k \in 1..Len(batch.proofs) :
         batch.proofs[k] =
           ProofOfReading(batch.readings[Succeeded(batch.outcomes)[k]], batch.key)

\* a batch of three readings returned with the second one failed
C28_Witness ==
  /\ batch.st = "returned"
  /\ batch.outcomes = <<"returned", "threw", "returned">>
  /\ Len(batch.proofs) = 2

\* C26: the deviceId of the reading in a proof of a sensor proof generator is
\* the base58 form of the public key of the proof.
C26_DeviceIdIsSignerKey ==
  (sensor.st = "resolved" /\ sensor.proof # NoProof) =>
    sensor.proof.sensorData.deviceId = toBase58(sensor.proof.publicKey)

\* C29: a sample-collecting operation is never still collecting after its
\* window plus the grace period; when it has settled without any reading it
\* has rejected, and the proof it resolved with carries the number of
\* readings collected as sampleCount.
C29_SamplingSettlesAtHardTimeout ==
  sensor.op \in SamplingOps =>
    /\ sensor.st = "collecting" => sensor.clock <= sensor.window + Grace
    /\ (sensor.st \in {"resolved", "rejected"} /\ sensor.readings = 0)
         => (sensor.st = "rejected" /\ sensor.by = "timeout")
    /\ sensor.st = "resolved"
         => /\ sensor.readings >= 1
            /\ GetMember(sensor.proof.sensorData.data, "sampleCount")
                 = JSNumber(sensor.readings)

\* the hard timeout fired with fewer readings than asked for and the operation
\* resolved with a proof of them
C29_Witness ==
  /\ sensor.op \in SamplingOps
  /\ sensor.st = "resolved"
  /\ sensor.by = "timeout"
  /\ sensor.readings < sensor.samples
  /\ sensor.clock >= sensor.window + Grace

ProofOps ==
  {"getCurrentReading", "detectStepsWithProof", "detectShake"} \cup GPSOps

\* C30: none of getCurrentReading, detectStepsWithProof, detectShake,
\* getCurrentLocation, generateLocationProof and generateEnrichedLocationProof
\* is still waiting after the longest time any timer of the generators runs.
C30_NoOperationWaitsForever ==
  (sensor.op \in ProofOps /\ sensor.st \in Waiting) => sensor.clock <= MaxWait

\* the place of the first record of proofHash h in the list s
FirstPlace(s, h) == CHOOSE i \in 1..Len(s) :
                      /\ s[i].proofHash = h
                      /\ \A j \in 1..(i - 1) : s[j].proofHash # h

C34_PositiveCountMeansSubmitted ==
  (pc = "returned" /\ result.fn = "submitPendingProofs") =>
    /\ result.count > 0 =>
         \A k \in 1..Len(outer.taken) :
           /\ IsStored(storage, outer.taken[k])
           /\ Stored(storage, outer.taken[k]).submitted
    /\ result.inner \in {"null", "threw"} => result.count = 0

\* C33: with a program id, a wallet, an accepting transport and a working
\* store, calling submitPendingProofs again and again leads to a store in
\* which getPendingProofs is empty.
C33_RepeatedDrainEmptiesPending == <>(getPendingProofs(storage) = <<>>)

\* caller c handed proof h to the ledger transport
SentBy(c, h) == race[c].sent /\ \E k \in 1..Len(race[c].taken) : race[c].taken[k] = h

\* C32: when two calls of the hook (submitPendingProofs, or submitProof for a
\* proof) overlap in time, no proof is handed to the ledger transport by both
\* of them.
C32_OverlappingCallsSendOnce ==
  (/\ race[1].overlapped /\ race[2].overlapped
   /\ \E c \in 1..2 : race[c].fn = "submitPendingProofs") =>
    \A h \in Hashes : ~(SentBy(1, h) /\ SentBy(2, h))

\* C35: in every state, also while signData and disconnect are in flight, the
\* public key, the auth token and the base64 address of the signer are all
\* set or all null.
C35_SessionFieldsAllOrNone ==
  \/ authorizedPublicKey # NullKey /\ authToken # Null /\ base64Address # Null
  \/ authorizedPublicKey = NullKey /\ authToken = Null /\ base64Address = Null

\* C36: once disconnect has returned, no auth token is held in AsyncStorage,
\* whatever a signData call in flight does afterwards.
C36_NoTokenSavedAfterDisconnect ==
  flight.disc.st = "done" => savedToken = Null

\* C37: while no connect, disconnect or session restore is in flight,
\* isConnected (walletAddress !== null) holds exactly when the signer is
\* authorized, and then the key of the signer is walletAddress.
C37_ConnectedIffAuthorized ==
  /\ walletAddress # NullKey <=> isAuthorized
  /\ isAuthorized => authorizedPublicKey = walletAddress

\* C38: in a sample-collecting operation at most one of the sample-count path
\* and the hard-timeout path builds a proof, the promise is settled once, the
\* listener is removed and the timer spent when a path has won, and a reading
\* that arrives afterwards is not collected.
C38_OnePathWins ==
  sensor.op \in SamplingOps =>
    /\ sensor.builds <= 1
    /\ sensor.settles <= 1
    /\ sensor.st = "collecting" => (sensor.builds = 0 /\ sensor.settles = 0)
    /\ sensor.st = "building" => (sensor.builds = 1 /\ sensor.settles = 0)
    /\ sensor.st \in {"resolved", "rejected"} => sensor.settles = 1
    /\ sensor.st \in {"building", "resolved", "rejected"}
         => /\ ~sensor.listener
            /\ ~sensor.timer
            /\ sensor.readings = sensor.atWin

\* the hard timeout won with fewer readings than asked for, a reading arrived
\* while the proof was being built, and the operation resolved
C38_Witness ==
  /\ sensor.op \in SamplingOps
  /\ sensor.st = "resolved"
  /\ sensor.by = "timeout"
  /\ sensor.late = 1
  /\ sensor.builds = 1
  /\ sensor.readings < sensor.samples

\* C31: after remove() no proof construction is started for the subscription,
\* and a construction that was in flight when remove() was called is not
\* dropped: each one is still in flight, has reached the callback, or failed
\* in generateProof.
C31_RemoveStopsNewConstructions ==
  /\ sub.st = "removed" =>
       /\ sub.started = sub.startedAtRemove
       /\ sub.inFlight + sub.deliveredAfterRemove <= sub.inFlightAtRemove
  /\ sub.started = sub.inFlight + sub.delivered + sub.failed

\* a construction was in flight when remove() was called and its proof
\* reached the callback afterwards
C31_Witness ==
  /\ sub.st = "removed"
  /\ sub.inFlightAtRemove >= 1
  /\ sub.deliveredAfterRemove >= 1

====
